---- MODULE Spec2Model ----
(***************************************************************************)
(* Model of the market actor (worker/MarketRoom.ts), the game lifecycle    *)
(* (worker/gameEngine.ts), the clearing engine (worker/clearing.ts), the   *)
(* visibility projector (worker/visibility.ts), the session tokens         *)
(* (worker/auth.ts), the directory client (worker/registry.ts) and the     *)
(* browser's connection to a market (lib/websocket.ts).                    *)
(*                                                                         *)
(* Conventions                                                             *)
(*  - an optional value (undefined / null in the source) is a sequence of  *)
(*    length 0 or 1: None == << >>, Some(x) == <<x>>;                      *)
(*  - a JavaScript object used as an insertion-ordered map (game.players)  *)
(*    is a sequence of records in insertion order;                         *)
(*  - generator id `Gen ${k}` is the integer k;                            *)
(*  - Date.now() is the variable now, in milliseconds;                     *)
(*  - a handler runs atomically up to an await of the external directory   *)
(*    (registry.fetch): awaits of storage hold the platform's input gate,  *)
(*    an await of an outgoing fetch does not, so other events are          *)
(*    delivered while a handler is suspended there.  The suspended rest of *)
(*    the handler is kept in the variable pending.                         *)
(*                                                                         *)
(* Specifications                                                          *)
(*  - Spec: the actor under every request of its clients, within a window  *)
(*    of time that starts at Epoch;                                        *)
(*  - TimerSpec: a few clients and commands, and the alarm drives the      *)
(*    actor beyond the window, under fairness of the alarm and of the      *)
(*    directory fetch;                                                     *)
(*  - EngineSpec: running games in their last period, whose participants   *)
(*    submit offers and whose deadline fires with every outcome of the     *)
(*    shuffle and of the jitter;                                           *)
(*  - RaceSpec: a few requests and commands, with two handlers waiting on  *)
(*    the directory at once;                                               *)
(*  - OfferSpec: running games with every offer ceiling, whose             *)
(*    participant submits every kind of offer value;                       *)
(*  - LobbySpec: a forming game whose players join and are removed and     *)
(*    whose options are updated;                                           *)
(*  - ClientSpec: one browser client (the variable client), its user, its  *)
(*    transports and its timers, under fairness of a failing connect and   *)
(*    of the reconnect timer;                                              *)
(*  - ReplicaSpec: a connected client that receives every push of a game;  *)
(*  - DestroySpec: the actor with the close events of the sockets it has   *)
(*    closed (the variable closing) delivered to it;                       *)
(*  - DirectorySpec: the actor with a directory whose calls may fail;      *)
(*  - BackoffSpec: a client whose reconnect timer is armed with the delay  *)
(*    the source computes (the variable reconnectDelay);                   *)
(*  - SyncSpec: the actor and one client that receives what the actor      *)
(*    sends to its socket, in the order of sending;                        *)
(*  - SubmitSpec: a running game whose participants submit offers while    *)
(*    one of them is the client.                                           *)
(***************************************************************************)
EXTENDS Integers, Sequences, FiniteSets, Bags, TLC

(***************************************************************************)
(* Bounds of the model                                                     *)
(***************************************************************************)
MaxConns == 2
MaxPending == 1
Epoch == 1000
MaxElapsed == 0
MaxAttempt == 5
MaxOld == 1

(***************************************************************************)
(* Program constants                                                       *)
(***************************************************************************)
WS_CLOSE_REPLACED == 4000
WS_CLOSE_KICKED == 4001
WS_CLOSE_RESET == 4002
WS_CLOSE_DELETED == 4003
WS_CLOSE_SEND_FAILED == 1011
CLEANUP_DELAY_MS == 172800000
CLEANUP_JITTER_MS == 1000
MIN_REMAINING_MS == 5000
REWARD_LIMIT == 999999
DEFAULT_MAX_OFFER == 200
PROFILE_SCALE == 100000
RETRY_LIMIT == 3
RECONNECT_BASE_MS == 1000
RECONNECT_MAX_MS == 30000

None == << >>
Some(x) == <<x>>
IsSome(o) == Len(o) > 0
Val(o) == o[1]

Min(a, b) == IF a < b THEN a ELSE b
Max(a, b) == IF a > b THEN a ELSE b

\* A clamp without its lower limit
clampAbove(value, lo, hi) == Min(value, hi)

\* constants.ts clamp: Math.min(Math.max(value, min), max)
clamp(value, lo, hi) == Min(Max(value, lo), hi)

RECURSIVE SeqSum(_)
SeqSum(s) == IF s = << >> THEN 0 ELSE Head(s) + SeqSum(Tail(s))

SeqToSet(s) == { s[i] : i \in 1..Len(s) }

(***************************************************************************)
(* constants.ts: presets, profiles, default options, sanitizeOptions       *)
(***************************************************************************)
GEN_PRESETS ==
  [ standard |-> << [capacity |-> 50, cost |-> 20], [capacity |-> 20, cost |-> 30],
                    [capacity |-> 10, cost |-> 40], [capacity |-> 10, cost |-> 50],
                    [capacity |-> 10, cost |-> 65] >>,
    simple |-> << [capacity |-> 50, cost |-> 20], [capacity |-> 30, cost |-> 35],
                  [capacity |-> 20, cost |-> 55] >>,
    competitive |-> << [capacity |-> 30, cost |-> 15], [capacity |-> 20, cost |-> 25],
                       [capacity |-> 15, cost |-> 30], [capacity |-> 10, cost |-> 40],
                       [capacity |-> 10, cost |-> 50], [capacity |-> 10, cost |-> 60],
                       [capacity |-> 5, cost |-> 75] >> ]

\* Hourly multipliers, in units of 10^-7 (truncated).  The source computes
\* Math.floor(nplayers * 100 * profile[i]); with the multiplier in units of
\* 10^-7 that is (nplayers * multiplier) \div PROFILE_SCALE, which agrees with
\* the source's floating-point result for every player count up to 4.
LOAD_PROFILES ==
  [ realistic |-> << 5224416, 4724959, 4473445, 4391822, 5247466, 6356411,
                     7329035, 7893899, 8047153, 7606786, 7089480, 6163645,
                     5353395, 4887538, 4850783, 5026763, 5849925, 6934718,
                     7890355, 8429582, 8500737, 8048275, 7461485, 6458900 >>,
    flat |-> << 6500000, 6500000, 6500000, 6500000, 6500000, 6500000,
                6500000, 6500000, 6500000, 6500000, 6500000, 6500000,
                6500000, 6500000, 6500000, 6500000, 6500000, 6500000,
                6500000, 6500000, 6500000, 6500000, 6500000, 6500000 >>,
    peak |-> << 3500000, 3200000, 3000000, 3000000, 3500000, 4500000,
                7000000, 9000000, 9500000, 8000000, 6000000, 4500000,
                4000000, 3800000, 3800000, 4200000, 5500000, 7500000,
                9200000, 9500000, 8500000, 6500000, 5000000, 4000000 >>,
    volatile |-> << 4500000, 3000000, 5500000, 3500000, 8000000, 4000000,
                    9000000, 5000000, 9500000, 3500000, 7000000, 4500000,
                    8500000, 3000000, 6000000, 9000000, 4000000, 9500000,
                    5000000, 8000000, 3500000, 7000000, 5500000, 4500000 >> ]

VALID_GEN_PRESETS == {"standard", "simple", "competitive"}
VALID_LOAD_PROFILES == {"realistic", "flat", "peak", "volatile"}
VALID_PAYMENT_METHODS == {"last_accepted_offer", "pay_as_offered"}

OptionFields ==
  {"max_participants", "num_periods", "auto_advance_time", "payment_method",
   "max_offer_price", "starting_money", "gen_preset", "load_profile",
   "scarcity_price", "load_jitter"}

DEFAULT_GAME_OPTIONS ==
  [ max_participants |-> 6, num_periods |-> 24, auto_advance_time |-> 180,
    payment_method |-> "last_accepted_offer", max_offer_price |-> 200,
    starting_money |-> 0, gen_preset |-> "standard", load_profile |-> "realistic",
    scarcity_price |-> 0, load_jitter |-> 0 ]

\* One field of sanitizeOptions: the clamped / validated value, or None when
\* the field is dropped.  raw is a record over a subset of OptionFields; a
\* field that is absent in raw is `raw.f == null`.
sanitizeField(raw, f) ==
  IF f \notin DOMAIN raw THEN None
  ELSE CASE f = "max_participants" -> Some(clamp(raw[f], 2, 99))
         [] f = "num_periods" -> Some(clamp(raw[f], 2, 99))
         [] f = "auto_advance_time" -> Some(clamp(raw[f], 2, 9999))
         [] f = "payment_method" ->
              IF raw[f] \in VALID_PAYMENT_METHODS THEN Some(raw[f]) ELSE None
         [] f = "max_offer_price" -> Some(clamp(raw[f], 1, 9999))
         [] f = "starting_money" -> Some(clamp(raw[f], 0, 999999))
         [] f = "gen_preset" ->
              IF raw[f] \in VALID_GEN_PRESETS THEN Some(raw[f]) ELSE None
         [] f = "load_profile" ->
              IF raw[f] \in VALID_LOAD_PROFILES THEN Some(raw[f]) ELSE None
         [] f = "scarcity_price" -> Some(clamp(raw[f], 0, 99999))
         [] f = "load_jitter" -> Some(clamp(raw[f], 0, 30))

\* { ...base, ...sanitizeOptions(raw) } and Object.assign(base, sanitizeOptions(raw))
mergeOptions(base, raw) ==
  [ f \in OptionFields |->
      IF IsSome(sanitizeField(raw, f)) THEN Val(sanitizeField(raw, f)) ELSE base[f] ]

(***************************************************************************)
(* types.ts: the game record.  The cleared periods are stored under their  *)
(* own keys; no function of the worker adds one to game.periods.           *)
(***************************************************************************)
defaultGameState ==
  [ state |-> "uninitialized", visibility |-> "public", options |-> None,
    players |-> << >>, gens |-> << >>, periods |-> << >>, period |-> 0, nplayers |-> 0,
    auto_advance |-> FALSE, advance_time |-> 0, last_advance_time |-> 0 ]

\* game.players[name] !== undefined
HasPlayer(players, name) == \E i \in 1..Len(players) : players[i].id = name
PlayerIndex(players, name) == CHOOSE i \in 1..Len(players) : players[i].id = name
GetPlayer(players, name) == players[PlayerIndex(players, name)]
PlayerNames(players) == { players[i].id : i \in 1..Len(players) }

\* delete game.players[name]: the remaining keys keep their insertion order
RECURSIVE RemovePlayer(_, _)
RemovePlayer(players, name) ==
  IF players = << >> THEN << >>
  ELSE IF Head(players).id = name THEN RemovePlayer(Tail(players), name)
       ELSE <<Head(players)>> \o RemovePlayer(Tail(players), name)

(***************************************************************************)
(* gameEngine.ts                                                           *)
(***************************************************************************)
\* The identities the model draws from; those of BadNames fail the pattern
\* /^[a-zA-Z0-9 _-]+$/ or the length bounds 1..20 after trim().
ValidNames == {"amy", "bob"}
BadNames == {"b@d"}
Names == ValidNames \cup BadNames

isValidName(name) == name \in ValidNames

\* A join that is accepted in every lifecycle state
joinAnyState(game, kickedPlayers, name, uin) ==
  IF name \in kickedPlayers THEN [result |-> "kicked", game |-> game]
  ELSE IF ~isValidName(name) THEN [result |-> "invalid_name", game |-> game]
  ELSE IF HasPlayer(game.players, name) THEN [result |-> "name_taken", game |-> game]
  ELSE [ result |-> "ok",
         game |-> [ game EXCEPT
                      !.players = Append(@, [id |-> name, uin |-> uin, money |-> 0,
                                             ngens |-> 0, last_offer_time |-> 0]),
                      !.nplayers = @ + 1 ] ]

joinGame(game, kickedPlayers, name, uin) ==
  IF name \in kickedPlayers THEN [result |-> "kicked", game |-> game]
  ELSE IF game.state # "forming" THEN [result |-> "not_forming", game |-> game]
  ELSE IF ~isValidName(name) THEN [result |-> "invalid_name", game |-> game]
  ELSE IF HasPlayer(game.players, name) THEN [result |-> "name_taken", game |-> game]
  ELSE LET players1 == Append(game.players,
                         [id |-> name, uin |-> uin, money |-> 0, ngens |-> 0,
                          last_offer_time |-> 0])
           n1 == Len(players1)
       IN [ result |-> "ok",
            game |-> [ game EXCEPT
                         !.players = players1,
                         !.nplayers = n1,
                         !.state = IF IsSome(game.options)
                                      /\ n1 >= Val(game.options).max_participants
                                   THEN "full" ELSE @ ] ]

\* An options update that is accepted in every state of a game
updateOptionsAlways(game, options) ==
  IF ~IsSome(game.options) THEN [ok |-> FALSE, game |-> game]
  ELSE [ok |-> TRUE, game |-> [game EXCEPT !.options = Some(mergeOptions(Val(@), options))]]

\* An options update that leaves the lifecycle state as it is
updateOptionsOnly(game, options) ==
  IF game.state # "forming" /\ game.state # "full" THEN [ok |-> FALSE, game |-> game]
  ELSE IF ~IsSome(game.options) THEN [ok |-> FALSE, game |-> game]
  ELSE [ok |-> TRUE, game |-> [game EXCEPT !.options = Some(mergeOptions(Val(@), options))]]

updateOptions(game, options) ==
  IF game.state # "forming" /\ game.state # "full" THEN [ok |-> FALSE, game |-> game]
  ELSE IF ~IsSome(game.options) THEN [ok |-> FALSE, game |-> game]
  ELSE LET opts1 == mergeOptions(Val(game.options), options)
       IN [ ok |-> TRUE,
            game |-> [ game EXCEPT
                         !.options = Some(opts1),
                         !.state = IF game.nplayers >= opts1.max_participants THEN "full"
                                   ELSE IF game.state = "full" THEN "forming"
                                   ELSE @ ] ]

setVisibility(game, visibility) ==
  IF visibility # "public" /\ visibility # "unlisted" THEN [ok |-> FALSE, game |-> game]
  ELSE [ok |-> TRUE, game |-> [game EXCEPT !.visibility = visibility]]

\* A submitted value: a finite number [kind |-> "num", v |-> n] or a
\* non-number / non-finite value (NaN, Infinity, a string).
IsFiniteNumber(x) == x.kind = "num"

\* A submission that sets the offer of every generator it names, whoever
\* owns it
submitOffersAnyOwner(game, playerName, offers, t) ==
  IF game.state # "running" THEN [ok |-> FALSE, game |-> game]
  ELSE [ ok |-> TRUE,
         game |-> [ game EXCEPT
                      !.gens = [ k \in 1..Len(game.gens) |->
                                   IF k \in DOMAIN offers /\ IsFiniteNumber(offers[k])
                                   THEN [game.gens[k] EXCEPT !.offer = Max(offers[k].v, 0)]
                                   ELSE game.gens[k] ] ] ]

\* offers is a record-like function: generator id -> submitted value; ids of
\* generators that do not exist are ignored by the loop (`if (gen && ...)`).
submitOffers(game, playerName, offers, t) ==
  IF game.state # "running" THEN [ok |-> FALSE, game |-> game]
  ELSE LET maxOffer == IF IsSome(game.options) THEN Val(game.options).max_offer_price
                       ELSE DEFAULT_MAX_OFFER
           gens1 == [ k \in 1..Len(game.gens) |->
                        IF k \in DOMAIN offers /\ game.gens[k].owner = playerName
                        THEN [ game.gens[k] EXCEPT
                                 !.offer = IF IsFiniteNumber(offers[k])
                                           THEN clamp(offers[k].v, 0, maxOffer)
                                           ELSE @ ]
                        ELSE game.gens[k] ]
           players1 == [ i \in 1..Len(game.players) |->
                           IF game.players[i].id = playerName
                           THEN [game.players[i] EXCEPT !.last_offer_time = t]
                           ELSE game.players[i] ]
       IN [ok |-> TRUE, game |-> [game EXCEPT !.gens = gens1, !.players = players1]]

rewardPlayer(game, playerId, amount) ==
  IF game.state # "running" /\ game.state # "completed" THEN [ok |-> FALSE, game |-> game]
  ELSE IF ~HasPlayer(game.players, playerId) THEN [ok |-> FALSE, game |-> game]
  ELSE IF ~IsFiniteNumber(amount) THEN [ok |-> FALSE, game |-> game]
  ELSE [ ok |-> TRUE,
         game |-> [ game EXCEPT
                      !.players = [ i \in 1..Len(game.players) |->
                                      IF game.players[i].id = playerId
                                      THEN [ game.players[i] EXCEPT
                                               !.money = @ + clamp(amount.v, -REWARD_LIMIT, REWARD_LIMIT) ]
                                      ELSE game.players[i] ] ] ]

kickPlayer(game, kickedPlayers, playerId) ==
  IF game.state # "forming" /\ game.state # "full"
  THEN [ok |-> FALSE, game |-> game, kicked |-> kickedPlayers]
  ELSE IF ~HasPlayer(game.players, playerId)
  THEN [ok |-> FALSE, game |-> game, kicked |-> kickedPlayers]
  ELSE LET players1 == RemovePlayer(game.players, playerId)
           n1 == Len(players1)
       IN [ ok |-> TRUE,
            kicked |-> kickedPlayers \cup {playerId},
            game |-> [ game EXCEPT
                         !.players = players1,
                         !.nplayers = n1,
                         !.state = IF game.state = "full" /\ IsSome(game.options)
                                      /\ n1 < Val(game.options).max_participants
                                   THEN "forming" ELSE @ ] ]

\* Gen ids are sequential across all players, in the order of Object.keys(players).
distributeGenerators(game) ==
  LET preset == IF IsSome(game.options) THEN Val(game.options).gen_preset ELSE "standard"
      templates == GEN_PRESETS[preset]
      nt == Len(templates)
      gens1 == [ k \in 1..(Len(game.players) * nt) |->
                   LET tmpl == templates[((k - 1) % nt) + 1]
                   IN [ id |-> k, owner |-> game.players[((k - 1) \div nt) + 1].id,
                        capacity |-> tmpl.capacity, cost |-> tmpl.cost, offer |-> tmpl.cost ] ]
  IN [ game EXCEPT
         !.gens = gens1,
         !.players = [ i \in 1..Len(game.players) |-> [game.players[i] EXCEPT !.ngens = nt] ] ]

\* The jitter-free demand (applyJitter = false, or load_jitter <= 0).
computeLoad(game, periodNumber) ==
  LET name == IF IsSome(game.options) THEN Val(game.options).load_profile ELSE "realistic"
      profile == LOAD_PROFILES[name]
  IN (game.nplayers * profile[((periodNumber - 1) % 24) + 1]) \div PROFILE_SCALE

getCurrentLoad(game) ==
  IF game.state # "running" /\ game.state # "completed" THEN None
  ELSE IF ~IsSome(game.options) \/ game.period < 1
          \/ game.period > Val(game.options).num_periods THEN None
  ELSE Some(computeLoad(game, game.period))

getNextLoad(game) ==
  IF game.state # "running" \/ ~IsSome(game.options) THEN None
  ELSE IF game.period + 1 > Val(game.options).num_periods THEN None
  ELSE Some(computeLoad(game, game.period + 1))

initializeNewGame(game, options) ==
  [ game EXCEPT
      !.gens = << >>, !.periods = << >>, !.period = 0, !.auto_advance = FALSE,
      !.advance_time = 0, !.last_advance_time = 0,
      !.options = Some(mergeOptions(DEFAULT_GAME_OPTIONS, options)),
      !.state = "forming", !.players = << >>, !.nplayers = 0 ]

startGame(game) ==
  IF game.state # "forming" /\ game.state # "full" THEN [ok |-> FALSE, game |-> game]
  ELSE IF game.nplayers = 0 THEN [ok |-> FALSE, game |-> game]
  ELSE LET startingMoney == IF IsSome(game.options) THEN Val(game.options).starting_money ELSE 0
           g1 == [ game EXCEPT
                     !.state = "running", !.period = 0, !.periods = << >>,
                     !.auto_advance = TRUE,
                     !.players = [ i \in 1..Len(game.players) |->
                                     [game.players[i] EXCEPT !.money = startingMoney] ] ]
       IN [ok |-> TRUE, game |-> distributeGenerators(g1)]

resetGame == defaultGameState

(***************************************************************************)
(* clearing.ts                                                             *)
(***************************************************************************)
MinOffer(gens, S) == CHOOSE m \in { gens[k].offer : k \in S } :
                       \A k \in S : m <= gens[k].offer

\* computeMeritOrder: a uniform shuffle followed by a stable sort by offer.
\* Every order that is ascending in offer can result; ties are in any order.
\* The result is the set of possible orders, each a sequence of generator ids.
RECURSIVE MeritOrdersOf(_, _)
MeritOrdersOf(gens, S) ==
  IF S = {} THEN { << >> }
  ELSE LET m == MinOffer(gens, S)
           C == { k \in S : gens[k].offer = m }
       IN UNION { { <<k>> \o rest : rest \in MeritOrdersOf(gens, S \ {k}) } : k \in C }

computeMeritOrder(gens) == MeritOrdersOf(gens, 1..Len(gens))

\* A dispatch that runs every generator at its capacity
dispatchAtCapacity(gens, order, acc) ==
  [ mw |-> [k \in 1..Len(gens) |-> gens[k].capacity],
    marginalCost |-> IF order = << >> THEN 0 ELSE gens[order[Len(order)]].offer,
    loadLeft |-> 0, stop |-> TRUE ]

\* The dispatch loop: acc is [mw, marginalCost, loadLeft, stop].
RECURSIVE dispatchLoop(_, _, _)
dispatchLoop(gens, order, acc) ==
  IF order = << >> \/ acc.stop THEN acc
  ELSE LET g == gens[Head(order)]
           mw == Min(g.capacity, acc.loadLeft)
           left == acc.loadLeft - mw
       IN dispatchLoop(gens, Tail(order),
            [ mw |-> [acc.mw EXCEPT ![g.id] = mw],
              marginalCost |-> IF mw > 0 THEN g.offer ELSE acc.marginalCost,
              loadLeft |-> left,
              stop |-> left <= 0 ])

\* A dispatch that walks the merit order from its dear end
dispatchReversed(gens, meritOrder, load) ==
  LET r == dispatchLoop(gens, [i \in 1..Len(meritOrder) |-> meritOrder[Len(meritOrder) + 1 - i]],
             [ mw |-> [k \in 1..Len(gens) |-> 0], marginalCost |-> 0,
               loadLeft |-> load, stop |-> FALSE ])
  IN [ gens |-> [ k \in 1..Len(gens) |-> [offer |-> gens[k].offer, mw |-> r.mw[k]] ],
       marginal_cost |-> r.marginalCost ]

\* Returns the per-generator dispatch (period.gens) and the marginal cost.
dispatchGenerators(gens, meritOrder, load) ==
  LET r == dispatchLoop(gens, meritOrder,
             [ mw |-> [k \in 1..Len(gens) |-> 0], marginalCost |-> 0,
               loadLeft |-> load, stop |-> FALSE ])
  IN [ gens |-> [ k \in 1..Len(gens) |-> [offer |-> gens[k].offer, mw |-> r.mw[k]] ],
       marginal_cost |-> r.marginalCost ]

\* Every generator is paid the marginal price
paidMarginal(g, mw, marginal, paymentMethod) == marginal * mw

genRevenue(g, mw, marginal, paymentMethod) ==
  IF paymentMethod = "pay_as_offered" THEN g.offer * mw ELSE marginal * mw

\* Sum over the generators owned by `owner` of vals[generator id].
OwnerSum(gens, owner, vals) ==
  SeqSum([ k \in 1..Len(gens) |-> IF gens[k].owner = owner THEN vals[k] ELSE 0 ])

\* A settlement that records the rows and leaves the balances as they were
financialsUnpaid(gens, pgens, marginal, players, paymentMethod) ==
  LET rev == [ k \in 1..Len(gens) |->
                 genRevenue(gens[k], pgens[k].mw, marginal, paymentMethod) ]
      cost == [ k \in 1..Len(gens) |-> gens[k].cost * pgens[k].mw ]
      profit == [ k \in 1..Len(gens) |-> rev[k] - cost[k] ]
  IN [ players |-> players,
       rows |-> [ n \in PlayerNames(players) |->
                    [ revenue |-> Some(OwnerSum(gens, n, rev)),
                      costs |-> Some(OwnerSum(gens, n, cost)),
                      profit |-> Some(OwnerSum(gens, n, profit)),
                      money |-> Some(GetPlayer(players, n).money) ] ] ]

\* Returns the per-player settlement rows and the updated player map.
calculateFinancials(gens, pgens, marginal, players, paymentMethod) ==
  LET rev == [ k \in 1..Len(gens) |->
                 genRevenue(gens[k], pgens[k].mw, marginal, paymentMethod) ]
      cost == [ k \in 1..Len(gens) |-> gens[k].cost * pgens[k].mw ]
      profit == [ k \in 1..Len(gens) |-> rev[k] - cost[k] ]
      players1 == [ i \in 1..Len(players) |->
                      [ players[i] EXCEPT
                          !.money = @ + OwnerSum(gens, players[i].id, profit) ] ]
  IN [ players |-> players1,
       rows |-> [ n \in PlayerNames(players) |->
                    [ revenue |-> Some(OwnerSum(gens, n, rev)),
                      costs |-> Some(OwnerSum(gens, n, cost)),
                      profit |-> Some(OwnerSum(gens, n, profit)),
                      money |-> Some(GetPlayer(players1, n).money) ] ] ]

(***************************************************************************)
(* gameEngine.ts: clearing of a period and the advance                     *)
(***************************************************************************)
\* computeLoad(game, n, true): the demands the jitter can produce.  With
\* load_jitter <= 0 it is the jitter-free demand; otherwise the base demand
\* is scaled by a factor in [1 - j/100, 1 + j/100) and floored, minimum 1.
jitteredLoads(game, periodNumber) ==
  LET jitter == IF IsSome(game.options) THEN Val(game.options).load_jitter ELSE 0
      name == IF IsSome(game.options) THEN Val(game.options).load_profile ELSE "realistic"
      base100 == (game.nplayers * LOAD_PROFILES[name][((periodNumber - 1) % 24) + 1]) \div 1000
  IN IF jitter <= 0 THEN { computeLoad(game, periodNumber) }
     ELSE { Max(1, l) : l \in ((base100 * (100 - jitter)) \div 10000)
                               .. ((base100 * (100 + jitter)) \div 10000) }

\* The price without the scarcity override
priceWithoutScarcity(game, load, d) == d.marginal_cost

\* clearPeriod, its steps in turn: the price after the dispatch d, the
\* settlement fin at that price, and the record with the updated players.
clearingPrice(game, load, d) ==
  LET opts == Val(game.options)
      totalSupply == SeqSum([k \in 1..Len(game.gens) |-> game.gens[k].capacity])
  IN IF opts.scarcity_price > 0 /\ load > totalSupply
     THEN opts.scarcity_price ELSE d.marginal_cost

clearedPeriod(game, load, d, marginal, fin) ==
  [ period |-> Some([ number |-> game.period, load |-> load,
                      marginal_cost |-> marginal,
                      players |-> fin.rows, gens |-> d.gens ]),
    game |-> [game EXCEPT !.players = fin.players] ]

settlePeriod(game, load, d, marginal) ==
  clearedPeriod(game, load, d, marginal,
                calculateFinancials(game.gens, d.gens, marginal, game.players,
                                    Val(game.options).payment_method))

pricePeriod(game, load, d) == settlePeriod(game, load, d, clearingPrice(game, load, d))

\* clearPeriod for one outcome of the shuffle (meritOrder) and of the jitter
\* (load).  The period is None when there is nothing to clear.
clearPeriod(game, meritOrder, load) ==
  IF game.period = 0 \/ ~IsSome(game.options) THEN [period |-> None, game |-> game]
  ELSE pricePeriod(game, load, dispatchGenerators(game.gens, meritOrder, load))

\* An advance that never asks for the next deadline
advanceUnarmed(game, c, t) ==
  LET g1 == [c.game EXCEPT !.period = @ + 1]
  IN Some([ completed |-> g1.period > Val(game.options).num_periods, period |-> c.period,
            alarmTime |-> None,
            game |-> IF g1.period > Val(game.options).num_periods
                     THEN [g1 EXCEPT !.state = "completed"]
                     ELSE [g1 EXCEPT !.last_advance_time = t,
                                     !.advance_time = t + Val(game.options).auto_advance_time * 1000] ])

\* advancePeriod after clearPeriod returned c
advanceCleared(game, c, t) ==
       LET g1 == [c.game EXCEPT !.period = @ + 1]
           opts == Val(game.options)
       IN IF g1.period > opts.num_periods
          THEN Some([ completed |-> TRUE, period |-> c.period, alarmTime |-> None,
                      game |-> [g1 EXCEPT !.state = "completed"] ])
          ELSE LET g2 == [ g1 EXCEPT
                             !.last_advance_time = t,
                             !.advance_time = t + opts.auto_advance_time * 1000 ]
               IN Some([ completed |-> FALSE, period |-> c.period,
                         alarmTime |-> IF g2.auto_advance THEN Some(g2.advance_time) ELSE None,
                         game |-> g2 ])

\* advancePeriod at time t; None when rejected.
advancePeriod(game, meritOrder, load, t) ==
  IF game.state # "running" \/ ~IsSome(game.options) THEN None
  ELSE advanceCleared(game, clearPeriod(game, meritOrder, load), t)

\* setAutoAdvance at time t; None when rejected.
setAutoAdvance(game, enabled, t) ==
  IF game.state # "running" THEN None
  ELSE IF enabled /\ IsSome(game.options)
       THEN LET remaining == Max(MIN_REMAINING_MS, game.advance_time - t)
            IN Some([ alarmTime |-> Some(t + remaining), deleteAlarm |-> FALSE,
                      game |-> [ game EXCEPT !.auto_advance = enabled,
                                             !.advance_time = t + remaining ] ])
       ELSE Some([ alarmTime |-> None, deleteAlarm |-> TRUE,
                   game |-> [game EXCEPT !.auto_advance = enabled] ])

(***************************************************************************)
(* visibility.ts                                                           *)
(***************************************************************************)
stripPeriodGens(periods) ==
  [ i \in 1..Len(periods) |->
      [ number |-> periods[i].number, load |-> periods[i].load,
        marginal_cost |-> periods[i].marginal_cost, players |-> periods[i].players ] ]

stripPlayerInternals(players) ==
  [ n \in PlayerNames(players) |->
      [ money |-> GetPlayer(players, n).money,
        last_offer_time |-> GetPlayer(players, n).last_offer_time ] ]

\* 1-based position in the stable sort by descending money; the player count
\* when the name is not a player.
getPlayerRank(name, players) ==
  IF ~HasPlayer(players, name) THEN Len(players)
  ELSE LET i == PlayerIndex(players, name)
       IN 1 + Cardinality({ j \in 1..Len(players) :
                              \/ players[j].money > players[i].money
                              \/ (players[j].money = players[i].money /\ j < i) })

\* The player map with every balance and timestamp, as an admin is sent it
allPlayers(name, players) == stripPlayerInternals(players)

filterPlayers(name, players) ==
  [ n \in PlayerNames(players) |->
      IF n = name
      THEN [ money |-> GetPlayer(players, n).money,
             last_offer_time |-> GetPlayer(players, n).last_offer_time ]
      ELSE [ money |-> 0, last_offer_time |-> 0 ] ]

\* Every generator, whoever owns it
allGens(name, gens) == SeqToSet(gens)

\* The generators of the result, as the set of the records kept.
filterGens(name, gens) == { gens[k] : k \in { j \in 1..Len(gens) : gens[j].owner = name } }

NullRow == [revenue |-> None, costs |-> None, profit |-> None, money |-> None]

filterPeriods(name, periods) ==
  [ i \in 1..Len(periods) |->
      [ number |-> periods[i].number, load |-> periods[i].load,
        marginal_cost |-> periods[i].marginal_cost,
        players |-> [ n \in {name} |->
                        IF n \in DOMAIN periods[i].players THEN periods[i].players[n]
                        ELSE NullRow ] ] ]

\* allPeriods is Some(sequence of periods) on the initial connection and None
\* on an incremental broadcast.
getVisibleState(game, role, name, allPeriods, lastCleared, clients, currentLoad, nextLoad) ==
  LET rawPeriods == IF IsSome(allPeriods) THEN Val(allPeriods)
                    ELSE IF IsSome(lastCleared) THEN <<Val(lastCleared)>>
                    ELSE << >>
      initial == IsSome(allPeriods)
  IN IF role = "admin"
     THEN [ state |-> game.state, visibility |-> game.visibility, options |-> game.options,
            gens |-> SeqToSet(game.gens), period |-> game.period, nplayers |-> game.nplayers,
            auto_advance |-> game.auto_advance, advance_time |-> game.advance_time,
            last_advance_time |-> game.last_advance_time,
            players |-> stripPlayerInternals(game.players),
            periods |-> stripPeriodGens(rawPeriods),
            connectedClients |-> clients,
            currentLoad |-> currentLoad, nextLoad |-> nextLoad, initial |-> initial ]
     ELSE [ state |-> game.state, visibility |-> game.visibility, options |-> game.options,
            period |-> game.period, nplayers |-> game.nplayers,
            auto_advance |-> game.auto_advance, advance_time |-> game.advance_time,
            last_advance_time |-> game.last_advance_time,
            rank |-> getPlayerRank(name, game.players),
            nextLoad |-> nextLoad,
            players |-> filterPlayers(name, game.players),
            gens |-> filterGens(name, game.gens),
            periods |-> filterPeriods(name, rawPeriods),
            initial |-> initial ]

(***************************************************************************)
(* auth.ts: a token is its decoded fields plus whether its HMAC verifies   *)
(* under the signing secret.  expiry is an instant on the clock of now.    *)
(***************************************************************************)
\* verifyAdminToken behind isAdmin: key is None (missing) or Some(token);
\* wellFormed is false for a key without '.', with an unparsable expiry or
\* with an odd-length signature.
isAdmin(key, t) ==
  /\ IsSome(key)
  /\ Val(key).wellFormed
  /\ ~(Val(key).expiry < t)
  /\ Val(key).sigOk

\* Returns Some([name, uin]) or None.
verifyPlayerToken(token, t) ==
  IF ~IsSome(token) THEN None
  ELSE IF ~Val(token).wellFormed THEN None
  ELSE IF Val(token).expiry < t THEN None
  ELSE IF ~Val(token).sigOk THEN None
  ELSE Some([name |-> Val(token).name, uin |-> Val(token).uin])

(***************************************************************************)
(* registry.ts                                                             *)
(***************************************************************************)
buildSnapshot(g) ==
  [ state |-> g.state, visibility |-> g.visibility, nplayers |-> g.nplayers,
    maxPlayers |-> IF IsSome(g.options) THEN Val(g.options).max_participants ELSE 0 ]

\* The directory's entry for this market after a delivered pushToRegistry:
\* removed when the game is uninitialized, else replaced by the summary.
pushToRegistry(g) ==
  IF g.state = "uninitialized" THEN None
  ELSE Some([ state |-> g.state, visibility |-> g.visibility,
              playerCount |-> g.nplayers,
              maxPlayers |-> IF IsSome(g.options) THEN Val(g.options).max_participants
                             ELSE 0 ])

(***************************************************************************)
(* websocket.ts: the client.  cl is the client's state as one record: the  *)
(* module-level variables of websocket.ts, the fields of the connection    *)
(* store it writes, the session kept in sessionStorage, and the replica    *)
(* game.state.  ws is the transport the variable `ws` holds: "none" for    *)
(* null, else its readyState ("connecting", "open", "closed").  old has    *)
(* one entry for every earlier transport that is still to report its       *)
(* close: TRUE when its handlers are still attached.  A timer field is     *)
(* TRUE while its callback is still to run.  A period record of the        *)
(* replica is [number, rev], rev standing for its content; the replica's   *)
(* rev stands for every field but the periods and connectedClients.        *)
(* failures, everOpened, synced and oldHandlerRan observe the client and   *)
(* are never read by it: the connections of the session that failed in a   *)
(* row without reaching open, whether any transport has reached open since *)
(* the page was loaded, whether the transport has delivered its first      *)
(* (full) snapshot, and whether a handler of an earlier transport has run. *)
(***************************************************************************)
NoError == ""
SESSION_EXPIRED == "Session expired. Please sign in again."
CONNECTION_ERROR == "Connection error. Retrying..."

TERMINAL_CLOSE_MESSAGES ==
  (WS_CLOSE_KICKED :> "You have been removed from this game.")
  @@ (WS_CLOSE_REPLACED :> "Connected from another tab.")
  @@ (WS_CLOSE_RESET :> "The game was reset by the instructor.")
  @@ (WS_CLOSE_DELETED :> "This market has been deleted by the instructor.")

DEFAULT_GAME_STATE == [state |-> "uninitialized", periods |-> << >>, rev |-> 0, cc |-> None]

clientInitial ==
  [ ws |-> "none", old |-> << >>,
    reconnectParams |-> None, session |-> None,
    reconnectTimer |-> FALSE, pingInterval |-> FALSE, pongTimeout |-> FALSE,
    reconnectAttempt |-> 0, awaitingPong |-> FALSE,
    hasConnectedOnce |-> FALSE, sessionEstablishedOnce |-> FALSE,
    connected |-> FALSE, reconnecting |-> FALSE, connectionError |-> NoError,
    replica |-> DEFAULT_GAME_STATE,
    failures |-> 0, everOpened |-> FALSE, synced |-> FALSE, oldHandlerRan |-> FALSE ]

clearTimers(cl) ==
  [ cl EXCEPT !.reconnectTimer = FALSE, !.pingInterval = FALSE, !.pongTimeout = FALSE,
              !.awaitingPong = FALSE ]

\* A close that leaves the handlers of the transport attached
closeAttached(cl) ==
  IF cl.ws = "none" THEN cl
  ELSE [ cl EXCEPT !.ws = "none",
                   !.old = IF cl.ws \in {"connecting", "open"} THEN Append(@, TRUE) ELSE @ ]

closeWebSocket(cl) ==
  IF cl.ws = "none" THEN cl
  ELSE [ cl EXCEPT !.ws = "none",
                   !.old = IF cl.ws \in {"connecting", "open"} THEN Append(@, FALSE) ELSE @ ]

startPing(cl) == [cl EXCEPT !.pingInterval = TRUE]

\* The callback of the ping interval
pingTick(cl) ==
  IF cl.ws = "open" THEN [cl EXCEPT !.awaitingPong = TRUE, !.pongTimeout = TRUE] ELSE cl

\* The callback of the pong timeout; `ws?.close()` makes the transport report
\* its close later
pongTimedOut(cl) == [cl EXCEPT !.pongTimeout = FALSE]

\* Math.pow(2, n)
RECURSIVE Pow2(_)
Pow2(n) == IF n = 0 THEN 1 ELSE 2 * Pow2(n - 1)

\* The base delay of the attempt
reconnectBase(attempt) == Min(RECONNECT_BASE_MS * Pow2(attempt), RECONNECT_MAX_MS)

\* random is Math.random() in thousandths; Math.round rounds half up
getReconnectDelay(attempt, random) ==
  (reconnectBase(attempt) * (8000 + 4 * random) + 5000) \div 10000

\* The delay scheduleReconnect arms its timer with, if it arms one
scheduledDelay(cl, random, previous) ==
  IF ~IsSome(cl.reconnectParams) THEN previous
  ELSE getReconnectDelay(cl.reconnectAttempt, random)

\* reconnectAttempt is kept up to MaxAttempt: the client compares it with 3
\* and derives a delay from it that stays the same from 5 on
scheduleReconnect(cl) ==
  IF ~IsSome(cl.reconnectParams) THEN cl
  ELSE [ cl EXCEPT !.reconnectAttempt = Min(@ + 1, MaxAttempt), !.reconnectTimer = TRUE ]

\* connect(market, role, name, key, token), s being [market, role, name]
connect(cl, s) ==
  LET isReconnect == cl.reconnectParams = Some(s)
      c1 == IF isReconnect THEN cl
            ELSE [cl EXCEPT !.reconnectAttempt = 0, !.reconnecting = FALSE]
      c2 == closeWebSocket(clearTimers([c1 EXCEPT !.reconnectParams = Some(s),
                                                  !.session = Some(s)]))
  IN [ c2 EXCEPT !.ws = "connecting", !.synced = FALSE,
                 !.failures = IF isReconnect THEN @ ELSE 0 ]

\* The callback of the reconnect timer
reconnectFired(cl) ==
  LET c1 == [cl EXCEPT !.reconnectTimer = FALSE]
  IN IF IsSome(c1.reconnectParams) THEN connect(c1, Val(c1.reconnectParams)) ELSE c1

onopen(cl) ==
  startPing([ cl EXCEPT !.ws = "open", !.hasConnectedOnce = TRUE,
                        !.sessionEstablishedOnce = TRUE, !.connected = TRUE,
                        !.reconnecting = FALSE, !.connectionError = NoError,
                        !.reconnectAttempt = 0, !.failures = 0, !.everOpened = TRUE ])

\* The periods of the set S, which holds one record for each number, sorted
\* by number
RECURSIVE sortedByNumber(_)
sortedByNumber(S) ==
  IF S = {} THEN << >>
  ELSE LET first == CHOOSE p \in S : \A q \in S : p.number <= q.number
       IN <<first>> \o sortedByNumber(S \ {first})

\* The entry of the period map for number n after the records of incoming
\* were set in their order
RECURSIVE lastWithNumber(_, _, _)
lastWithNumber(incoming, n, found) ==
  IF incoming = << >> THEN found
  ELSE lastWithNumber(Tail(incoming), n,
                      IF Head(incoming).number = n THEN Head(incoming) ELSE found)

\* new Map(current.periods...), periodMap.set for every incoming period, and
\* the values sorted by number
mergePeriods(current, incoming) ==
  LET numbers == { current[i].number : i \in 1..Len(current) }
                 \cup { incoming[i].number : i \in 1..Len(incoming) }
      entry(n) == lastWithNumber(current \o incoming, n, [number |-> n, rev |-> 0])
  IN sortedByNumber({ entry(n) : n \in numbers })

\* A merge that keeps only the pushed periods
mergeDropsHistory(current, payload) ==
  [state |-> payload.state, periods |-> payload.periods, rev |-> payload.rev, cc |-> payload.cc]

\* A gameState message: payload is [state, periods, rev, cc] and the flag
\* _initial
mergeGameState(current, payload) ==
  LET full == [state |-> payload.state, periods |-> payload.periods, rev |-> payload.rev,
               cc |-> payload.cc]
  IN IF payload.initial THEN full
     ELSE IF payload.state # "running" /\ payload.state # "completed" THEN full
     ELSE [ full EXCEPT !.periods = mergePeriods(current.periods, payload.periods),
                        !.cc = IF IsSome(payload.cc) THEN payload.cc ELSE current.cc ]

\* msg is [type |-> "pong"] for the text 'pong', else the parsed message
\* [type, payload]
onmessage(cl, msg) ==
  IF msg.type = "pong" THEN [cl EXCEPT !.awaitingPong = FALSE, !.pongTimeout = FALSE]
  ELSE CASE msg.type = "gameState" ->
              [ cl EXCEPT !.replica = mergeGameState(cl.replica, msg.payload),
                          !.synced = @ \/ msg.payload.initial ]
         [] msg.type = "connectedClients" -> [cl EXCEPT !.replica.cc = Some(msg.payload)]
         [] msg.type = "error" -> [cl EXCEPT !.connectionError = msg.payload]
         [] OTHER -> cl

\* An onclose that retries after a terminal code as after any other
oncloseRetries(cl, code) ==
  LET c1 == clearTimers([ cl EXCEPT !.ws = "closed", !.connected = FALSE,
                                    !.failures = IF cl.ws = "connecting"
                                                 THEN Min(@ + 1, MaxAttempt) ELSE @ ])
  IN IF ~IsSome(c1.reconnectParams) THEN c1
     ELSE scheduleReconnect([c1 EXCEPT !.reconnecting = TRUE])

\* An onclose that gives up when 2 reconnects were scheduled
oncloseSooner(cl, code) ==
  LET c1 == clearTimers([ cl EXCEPT !.ws = "closed", !.connected = FALSE,
                                    !.failures = IF cl.ws = "connecting"
                                                 THEN Min(@ + 1, MaxAttempt) ELSE @ ])
      gaveUp == [ c1 EXCEPT !.reconnectParams = None, !.reconnecting = FALSE,
                            !.session = None ]
  IN IF code \in DOMAIN TERMINAL_CLOSE_MESSAGES
     THEN [gaveUp EXCEPT !.connectionError = TERMINAL_CLOSE_MESSAGES[code]]
     ELSE IF ~IsSome(c1.reconnectParams) THEN c1
     ELSE IF ~c1.sessionEstablishedOnce /\ ~c1.hasConnectedOnce /\ c1.reconnectAttempt >= 2
     THEN [gaveUp EXCEPT !.connectionError = SESSION_EXPIRED]
     ELSE scheduleReconnect([c1 EXCEPT !.reconnecting = TRUE])

onclose(cl, code) ==
  LET c1 == clearTimers([ cl EXCEPT !.ws = "closed", !.connected = FALSE,
                                    !.failures = IF cl.ws = "connecting"
                                                 THEN Min(@ + 1, MaxAttempt) ELSE @ ])
      gaveUp == [ c1 EXCEPT !.reconnectParams = None, !.reconnecting = FALSE,
                            !.session = None ]
  IN IF code \in DOMAIN TERMINAL_CLOSE_MESSAGES
     THEN [gaveUp EXCEPT !.connectionError = TERMINAL_CLOSE_MESSAGES[code]]
     ELSE IF ~IsSome(c1.reconnectParams) THEN c1
     ELSE IF ~c1.sessionEstablishedOnce /\ ~c1.hasConnectedOnce
             /\ c1.reconnectAttempt >= RETRY_LIMIT
     THEN [gaveUp EXCEPT !.connectionError = SESSION_EXPIRED]
     ELSE scheduleReconnect([c1 EXCEPT !.reconnecting = TRUE])

onerror(cl) == [cl EXCEPT !.connectionError = CONNECTION_ERROR]

\* A market switch that keeps the flag of an earlier successful connection
softDisconnectKeepsFlag(cl) ==
  [ closeWebSocket(clearTimers([cl EXCEPT !.reconnectParams = None]))
      EXCEPT !.reconnectAttempt = 0, !.hasConnectedOnce = FALSE,
             !.reconnecting = FALSE, !.connected = FALSE, !.connectionError = NoError,
             !.replica = DEFAULT_GAME_STATE, !.failures = 0 ]

softDisconnect(cl) ==
  [ closeWebSocket(clearTimers([cl EXCEPT !.reconnectParams = None]))
      EXCEPT !.reconnectAttempt = 0, !.hasConnectedOnce = FALSE,
             !.sessionEstablishedOnce = FALSE,
             !.reconnecting = FALSE, !.connected = FALSE, !.connectionError = NoError,
             !.replica = DEFAULT_GAME_STATE, !.failures = 0 ]

disconnect(cl, clearStoredSession) ==
  [ closeWebSocket(clearTimers([cl EXCEPT !.reconnectParams = None]))
      EXCEPT !.reconnectAttempt = 0, !.hasConnectedOnce = FALSE,
             !.reconnecting = FALSE, !.connected = FALSE, !.connectionError = NoError,
             !.replica = DEFAULT_GAME_STATE, !.failures = 0,
             !.session = IF clearStoredSession THEN None ELSE @ ]

(***************************************************************************)
(* MarketRoom.ts: state of the actor and of its platform                   *)
(***************************************************************************)
VARIABLES
  game,                 \* this.game
  marketName,           \* this.marketName ('' is "")
  lastRegistrySnapshot, \* this.lastRegistrySnapshot ('' is None)
  kickedPlayers,        \* this.kickedPlayers
  kickedPlayersDirty,   \* this.kickedPlayersDirty
  lastClearedPeriod,    \* this.lastClearedPeriod
  storage,              \* ctx.storage: the keys of the storage layout
  alarm,                \* the platform's single alarm slot
  registry,             \* the external directory's entry for this market
  conns,                \* ctx.getWebSockets(): the bag of the tags of the sockets
  pending,              \* handlers suspended at an await of the directory
  now,                  \* Date.now()
  client,               \* websocket.ts: the state of one client
  closing,              \* closed by the actor, their close events still to come
  reconnectDelay        \* websocket.ts: the delay of the reconnect timer armed last

vars == << game, marketName, lastRegistrySnapshot, kickedPlayers, kickedPlayersDirty,
           lastClearedPeriod, storage, alarm, registry, conns, pending, now,
           client, closing, reconnectDelay >>

emptyStorage ==
  [ game |-> None, periods |-> << >>, marketName |-> None, kickedPlayers |-> None,
    registrySnapshot |-> None, cleanupAt |-> None ]

Init ==
  /\ game = defaultGameState
  /\ marketName = ""
  /\ lastRegistrySnapshot = None
  /\ kickedPlayers = {}
  /\ kickedPlayersDirty = FALSE
  /\ lastClearedPeriod = None
  /\ storage = emptyStorage
  /\ alarm = None
  /\ registry = None
  /\ conns = EmptyBag
  /\ pending = << >>
  /\ now = Epoch
  /\ client = clientInitial
  /\ closing = {}
  /\ reconnectDelay = 0

\* The actor's state as one record, threaded through the steps of a handler,
\* with what the handler has put on the wire so far: sent (the messages) and
\* closed (<<tags, code>> for the sockets it closed).
St ==
  [ game |-> game, marketName |-> marketName,
    lastRegistrySnapshot |-> lastRegistrySnapshot, kickedPlayers |-> kickedPlayers,
    kickedPlayersDirty |-> kickedPlayersDirty, lastClearedPeriod |-> lastClearedPeriod,
    storage |-> storage, alarm |-> alarm, registry |-> registry, conns |-> conns,
    sent |-> {}, closed |-> {} ]

\* No socket, where a socket c is given as Some(c)
NoSock == None

\* What a handler did in one step: ok is FALSE when the step would open more
\* than MaxConns connections, st the actor's state and wire output after it, pend the
\* suspended handlers after it, and info the outcome: the handler (op), the
\* socket (conn), the command type, changed / threw, the HTTP status and
\* body, and whether the handler finished or was suspended (phase).
NoInfo == [ op |-> "", conn |-> NoSock, type |-> "", changed |-> FALSE, threw |-> FALSE,
            status |-> 0, phase |-> "done", response |-> None ]

Out(st, pend, info) == [ok |-> TRUE, st |-> st, pend |-> pend, info |-> info]
Blocked == [ok |-> FALSE, st |-> St, pend |-> pending, info |-> NoInfo]

\* The step of a handler: its state becomes the actor's, with at most bound
\* handlers left suspended.
CommitActor(out, bound) ==
  /\ out.ok
  /\ Len(out.pend) <= bound
  /\ game' = out.st.game
  /\ marketName' = out.st.marketName
  /\ lastRegistrySnapshot' = out.st.lastRegistrySnapshot
  /\ kickedPlayers' = out.st.kickedPlayers
  /\ kickedPlayersDirty' = out.st.kickedPlayersDirty
  /\ lastClearedPeriod' = out.st.lastClearedPeriod
  /\ storage' = out.st.storage
  /\ alarm' = out.st.alarm
  /\ registry' = out.st.registry
  /\ conns' = out.st.conns
  /\ pending' = out.pend

\* The step of a handler that no modelled client takes part in
CommitState(out, bound) ==
  /\ CommitActor(out, bound)
  /\ client' = client
  /\ reconnectDelay' = reconnectDelay

\* The step of a handler whose closes are not followed
CommitWithin(out, bound) == CommitState(out, bound) /\ closing' = closing

\* The step of a handler, the close events of the sockets it closed still
\* to come
CommitClosing(out, bound) ==
  CommitState(out, bound) /\ closing' = closing \cup out.st.closed

Commit(out) == CommitWithin(out, MaxPending)

(***************************************************************************)
(* Sockets.  A socket is its tags [role, name]; sockets with equal tags    *)
(* are told apart only by their number.  The peer of a socket the server   *)
(* closes is gone at once: the socket leaves getWebSockets() with the      *)
(* close.  Its close event reaches webSocketClose later; closing holds     *)
(* <<tags, code>> of the events still to come, for the specifications that *)
(* follow them.                                                            *)
(***************************************************************************)
Tag(role, name) == [role |-> role, name |-> name]
Sockets(cs) == BagToSet(cs)
NumSockets(cs) == BagCardinality(cs)
RemoveOne(cs, c) == cs (-) SetToBag({c})

\* ws.close(code) on every socket whose tags are in `which`
closeSockets(st, which, code) ==
  [ st EXCEPT
      !.conns = [ c \in Sockets(st.conns) \ which |-> st.conns[c] ],
      !.closed = @ \cup { <<c, code>> : c \in Sockets(st.conns) \cap which } ]

closeParticipantSockets(st, code) ==
  closeSockets(st, { c \in Sockets(st.conns) : c.role = "participant" }, code)

getConnectedClients(st) ==
  { c.name : c \in { d \in Sockets(st.conns) : d.role = "participant" } }

broadcastConnectedClientsToAdmins(st) ==
  [ st EXCEPT
      !.sent = @ \cup { [ to |-> c, type |-> "connectedClients",
                          payload |-> getConnectedClients(st) ]
                        : c \in { d \in Sockets(st.conns) : d.role = "admin" } } ]

\* An error message to every socket
broadcastError(st, c, message) ==
  [ st EXCEPT !.sent = @ \cup { [to |-> d, type |-> "error", payload |-> message]
                                : d \in Sockets(st.conns) } ]

sendError(st, c, message) ==
  [st EXCEPT !.sent = @ \cup { [to |-> c, type |-> "error", payload |-> message] }]

(***************************************************************************)
(* Storage helpers                                                         *)
(***************************************************************************)
scheduleCleanupAlarm(st, t) ==
  [ st EXCEPT !.storage.cleanupAt = Some(t + CLEANUP_DELAY_MS),
              !.alarm = Some(t + CLEANUP_DELAY_MS) ]

\* The stored period records are kept
keepPeriodStorage(st) == st

clearPeriodStorage(st) == [st EXCEPT !.storage.periods = << >>]

\* The stored period records sorted by number; the legacy 'periods' key is
\* never written by this code and is absent.
RECURSIVE sortedPeriods(_, _)
sortedPeriods(ps, S) ==
  IF S = {} THEN << >>
  ELSE LET m == CHOOSE x \in S : \A y \in S : x <= y
       IN <<ps[m]>> \o sortedPeriods(ps, S \ {m})

loadPeriodsFromStorage(st) ==
  IF st.game.period < 1 THEN << >>
  ELSE sortedPeriods(st.storage.periods, DOMAIN st.storage.periods)

(***************************************************************************)
(* persistAndBroadcast                                                     *)
(***************************************************************************)
\* Nothing is written
persistNothing(st) == st

\* A stored record that is the whole record of the game
metaWhole(g) == g

\* `{ periods: _periods, ...meta } = this.game`: the record without its
\* periods
meta(g) == [ f \in DOMAIN g \ {"periods"} |-> g[f] ]

\* storage.put(batch): the live record and, when dirty, the banned list
persistPut(st) ==
  [ st EXCEPT
      !.storage.game = Some(meta(st.game)),
      !.storage.kickedPlayers = IF st.kickedPlayersDirty THEN Some(st.kickedPlayers) ELSE @,
      !.kickedPlayersDirty = FALSE ]

\* The sockets the push loop sends to.  submitter is the submitting socket
\* for a submitOffers push and NoSock otherwise.
pushTargets(st, submitter) ==
  { d \in Sockets(st.conns) :
      ~(submitter # NoSock /\ d.role # "admin" /\ Some(d) # submitter) }

\* The loop over getWebSockets().  Each push records, in persisted, whether
\* the handler had written its live record before it moved on to the pushes.
broadcastGameState(st, submitter, wrote) ==
  [ st EXCEPT
      !.sent = @ \cup
        { [ to |-> c, type |-> "gameState", persisted |-> wrote,
            payload |-> getVisibleState(st.game, c.role, c.name, None,
                          st.lastClearedPeriod, getConnectedClients(st),
                          getCurrentLoad(st.game), getNextLoad(st.game)) ]
          : c \in pushTargets(st, submitter) } ]

\* The summary is remembered whether or not the directory took it
afterRegistryPushAlways(st, snapshot, updated) ==
  [ st EXCEPT !.lastRegistrySnapshot = Some(snapshot),
              !.storage.registrySnapshot = Some(snapshot) ]

\* After `await pushToRegistry(...)`: remember the published summary
afterRegistryPush(st, snapshot, updated) ==
  IF updated
  THEN [ st EXCEPT !.lastRegistrySnapshot = Some(snapshot),
                   !.storage.registrySnapshot = Some(snapshot) ]
  ELSE st

(***************************************************************************)
(* handleWebSocketUpgrade, from acceptWebSocket to the response            *)
(***************************************************************************)
\* No other socket is taken to have the tags of the new socket
noStaleSockets(cs, server) == 0

\* The number of other sockets with the tags of the new socket
staleSockets(cs, server) == CopiesIn(server, cs)

\* cancel a pending inactivity cleanup
cancelCleanup(st) ==
  IF st.game.state # "completed" /\ IsSome(st.storage.cleanupAt)
  THEN [ st EXCEPT !.storage.cleanupAt = None,
                   !.alarm = IF ~st.game.auto_advance THEN None ELSE @ ]
  ELSE st

\* last-connection-wins: close the `stale` other sockets with the same tags
closeStale(st, server, stale) ==
  IF stale > 0
  THEN [ st EXCEPT !.conns = [ c \in Sockets(@) |->
                                IF c = server THEN @[c] - stale ELSE @[c] ],
                   !.closed = @ \cup { <<server, WS_CLOSE_REPLACED>> } ]
  ELSE st

\* the initial state for the new socket, with history from storage; wrote is
\* whether the handler wrote its live record before (a join did)
sendInitialState(st, server, wrote) ==
  [ st EXCEPT
      !.sent = @ \cup
        { [ to |-> server, type |-> "gameState",
            persisted |-> wrote,
            payload |-> getVisibleState(st.game, server.role, server.name,
                          Some(loadPeriodsFromStorage(st)),
                          st.lastClearedPeriod, getConnectedClients(st),
                          getCurrentLoad(st.game), getNextLoad(st.game)) ] } ]

acceptSocket(st, server, stale, wrote) ==
  broadcastConnectedClientsToAdmins(
    sendInitialState(
      closeStale(cancelCleanup([st EXCEPT !.conns = @ (+) SetToBag({server})]),
                 server, stale),
      server, wrote))

acceptUpgrade(st, role, name, wrote) ==
  acceptSocket(st, Tag(role, name), staleSockets(st.conns, Tag(role, name)), wrote)

\* The response 101 for the accepted socket, within the bound on sockets
Accepted(st, server, info, pend) ==
  IF NumSockets(st.conns) > MaxConns THEN Blocked
  ELSE Out(st, pend, [info EXCEPT !.conn = Some(server), !.status = 101, !.phase = "done"])

\* The rest of a handler after its persistAndBroadcast returned; pend is the
\* suspended handlers that remain.
Finish(st, then, wrote, info, pend) ==
  IF then.kind = "upgrade"
  THEN Accepted(acceptUpgrade(st, then.role, then.name, wrote),
                Tag(then.role, then.name), info, pend)
  ELSE Out(st, pend, [info EXCEPT !.phase = "done"])

NoThen == [kind |-> "none", role |-> "", name |-> ""]

\* Whether persistAndBroadcast pushes the summary to the directory
summaryChanged(st) ==
  Some(buildSnapshot(st.game)) # st.lastRegistrySnapshot /\ st.marketName # ""

\* persistAndBroadcast as the tail of a handler.  When the summary changed
\* and the market name is known the handler awaits the directory: the
\* request leaves now (delivered or lost), and the rest of the handler is
\* suspended.
PersistAndBroadcast(st, submitter, then, info, delivered) ==
  LET st1 == persistPut(st)
      wrote == st1.storage.game = Some(meta(st1.game))
  IN IF summaryChanged(st1)
     THEN Out([ st1 EXCEPT !.registry = IF delivered THEN pushToRegistry(st1.game)
                                        ELSE @ ],
              Append(pending,
                     [ kind |-> "persistAndBroadcast", updated |-> delivered,
                       snapshot |-> buildSnapshot(st1.game), submitter |-> submitter,
                       wrote |-> wrote, then |-> then, info |-> info ]),
              [info EXCEPT !.phase = "suspended"])
     ELSE Finish(broadcastGameState(st1, submitter, wrote), then, wrote, info, pending)

\* removeFromRegistry followed by storage.deleteAll(): with a known market
\* name the handler awaits the directory first.
RemoveThenDeleteAll(st, info, delivered) ==
  IF st.marketName = ""
  THEN Out([st EXCEPT !.storage = emptyStorage], pending, [info EXCEPT !.phase = "done"])
  ELSE Out([st EXCEPT !.registry = IF delivered THEN None ELSE @],
           Append(pending,
                  [ kind |-> "deleteAll", updated |-> delivered,
                    snapshot |-> buildSnapshot(st.game), submitter |-> NoSock,
                    wrote |-> FALSE, then |-> NoThen, info |-> info ]),
           [info EXCEPT !.phase = "suspended"])

RemoveAt(s, i) == [ j \in 1..(Len(s) - 1) |-> IF j < i THEN s[j] ELSE s[j + 1] ]

(***************************************************************************)
(* Game-logic handlers of MarketRoom; each returns [changed, st]           *)
(***************************************************************************)
\* choice is the outcome of the shuffle and of the jitter used if a period is
\* cleared: [order, load].
\* handleAdvancePeriod after advancePeriod returned res
storeAdvance(st, res, t) ==
          LET st1 == [st EXCEPT !.game = res.game]
              st2 == IF IsSome(res.period)
                     THEN LET p == Val(res.period)
                          IN [ st1 EXCEPT
                                 !.storage.periods =
                                    [ k \in (DOMAIN @) \cup {p.number} |->
                                        IF k = p.number THEN p ELSE @[k] ],
                                 !.lastClearedPeriod = Some(p) ]
                     ELSE st1
              st3 == IF res.completed
                     THEN scheduleCleanupAlarm([st2 EXCEPT !.alarm = None], t)
                     ELSE IF IsSome(res.alarmTime)
                     THEN [st2 EXCEPT !.alarm = res.alarmTime]
                     ELSE st2
          IN [changed |-> TRUE, st |-> st3]

handleAdvanced(st, r, t) ==
  IF ~IsSome(r) THEN [changed |-> FALSE, st |-> st] ELSE storeAdvance(st, Val(r), t)

handleAdvancePeriod(st, choice, t) ==
  handleAdvanced(st, advancePeriod(st.game, choice.order, choice.load, t), t)

handleCreateGame(st, options) ==
  IF st.game.state = "running" THEN [changed |-> FALSE, st |-> st]
  ELSE LET st1 == closeParticipantSockets(st, WS_CLOSE_RESET)
           st2 == clearPeriodStorage([st1 EXCEPT !.lastClearedPeriod = None, !.alarm = None])
       IN [ changed |-> TRUE,
            st |-> [ st2 EXCEPT !.game = initializeNewGame(st2.game, options),
                                !.kickedPlayers = {},
                                !.kickedPlayersDirty = TRUE,
                                !.storage.cleanupAt = None ] ]

\* handleStartGame after startGame returned r
handleStarted(st, r, choice, t) ==
  IF ~r.ok THEN [changed |-> FALSE, st |-> st]
  ELSE [ changed |-> TRUE,
         st |-> handleAdvancePeriod([ st EXCEPT !.game = r.game,
                                                !.lastClearedPeriod = None ],
                                    choice, t).st ]

handleStartGame(st, choice, t) == handleStarted(st, startGame(st.game), choice, t)

handleSetAutoAdvance(st, enabled, t) ==
  LET r == setAutoAdvance(st.game, enabled, t)
  IN IF ~IsSome(r) THEN [changed |-> FALSE, st |-> st]
     ELSE [ changed |-> TRUE,
            st |-> [ st EXCEPT !.game = Val(r).game,
                               !.alarm = IF Val(r).deleteAlarm THEN None
                                         ELSE IF IsSome(Val(r).alarmTime) THEN Val(r).alarmTime
                                         ELSE @ ] ]

\* handleResetGame past its guard
resetAccepted(st) ==
  LET st1 == closeParticipantSockets(st, WS_CLOSE_RESET)
  IN [ changed |-> TRUE,
       st |-> clearPeriodStorage(
                [ st1 EXCEPT !.game = resetGame,
                             !.lastClearedPeriod = None,
                             !.kickedPlayers = {},
                             !.kickedPlayersDirty = TRUE,
                             !.alarm = None,
                             !.storage.cleanupAt = None,
                             !.lastRegistrySnapshot = None ]) ]

\* A reset that is accepted in every state
resetAlways(st) == resetAccepted(st)

handleResetGame(st) ==
  IF st.game.state = "running" THEN [changed |-> FALSE, st |-> st]
  ELSE resetAccepted(st)

handleKickPlayer(st, playerId) ==
  LET r == kickPlayer(st.game, st.kickedPlayers, playerId)
  IN IF ~r.ok THEN [changed |-> FALSE, st |-> st]
     ELSE [ changed |-> TRUE,
            st |-> closeSockets([ st EXCEPT !.game = r.game, !.kickedPlayers = r.kicked,
                                            !.kickedPlayersDirty = TRUE ],
                                { Tag("participant", playerId) },
                                WS_CLOSE_KICKED) ]

(***************************************************************************)
(* handleMessage: dispatch by type and role.  msg.payload is None for a    *)
(* missing (falsy) payload.  Returns [changed, threw, st].                 *)
(***************************************************************************)
\* A rejection that disarms the timer
RejectedDisarms(st) ==
  [changed |-> FALSE, threw |-> FALSE, st |-> [st EXCEPT !.alarm = None]]

Rejected(st) == [changed |-> FALSE, threw |-> FALSE, st |-> st]
Handled(r) == [changed |-> r.changed, threw |-> FALSE, st |-> r.st]
Pure(st, r) == [changed |-> r.ok, threw |-> FALSE, st |-> [st EXCEPT !.game = r.game]]

handleMessage(st, role, name, msg, choice, t) ==
  LET p == msg.payload
      admin == role = "admin"
  IN CASE msg.type = "createGame" ->
            IF admin /\ IsSome(p) THEN Handled(handleCreateGame(st, Val(p))) ELSE Rejected(st)
       [] msg.type = "updateOptions" ->
            IF admin /\ IsSome(p) THEN Pure(st, updateOptions(st.game, Val(p))) ELSE Rejected(st)
       [] msg.type = "startGame" ->
            IF admin THEN Handled(handleStartGame(st, choice, t)) ELSE Rejected(st)
       [] msg.type = "advancePeriod" ->
            IF admin THEN Handled(handleAdvancePeriod(st, choice, t)) ELSE Rejected(st)
       [] msg.type = "setAutoAdvance" ->
            IF admin /\ IsSome(p) THEN Handled(handleSetAutoAdvance(st, Val(p).enabled, t))
            ELSE Rejected(st)
       [] msg.type = "setVisibility" ->
            IF admin /\ IsSome(p) THEN Pure(st, setVisibility(st.game, Val(p).visibility))
            ELSE Rejected(st)
       [] msg.type = "submitOffers" ->
            IF role = "participant" /\ IsSome(p)
            THEN IF st.game.state = "running" /\ ~IsSome(Val(p).offers)
                 THEN [changed |-> FALSE, threw |-> TRUE, st |-> st]
                 ELSE Pure(st, submitOffers(st.game, name,
                                 IF IsSome(Val(p).offers) THEN Val(Val(p).offers) ELSE << >>, t))
            ELSE Rejected(st)
       [] msg.type = "resetGame" ->
            IF admin THEN Handled(handleResetGame(st)) ELSE Rejected(st)
       [] msg.type = "kickPlayer" ->
            IF admin /\ IsSome(p) THEN Handled(handleKickPlayer(st, Val(p).playerId))
            ELSE Rejected(st)
       [] msg.type = "rewardPlayer" ->
            IF admin /\ IsSome(p)
            THEN Pure(st, rewardPlayer(st.game, Val(p).playerId, Val(p).amount))
            ELSE Rejected(st)
       [] OTHER -> Rejected(st)

(***************************************************************************)
(* Inputs                                                                  *)
(***************************************************************************)
NeverExpires == 10 * CLEANUP_DELAY_MS
LongExpired == 0 - 1
MarketParam == "econ101"

GoodKey == [wellFormed |-> TRUE, expiry |-> NeverExpires, sigOk |-> TRUE]
AdminKeys ==
  { None, Some(GoodKey),
    Some([GoodKey EXCEPT !.expiry = LongExpired]), Some([GoodKey EXCEPT !.sigOk = FALSE]) }

GoodToken(n, u) ==
  [name |-> n, uin |-> u, wellFormed |-> TRUE, expiry |-> NeverExpires, sigOk |-> TRUE]
Expired(tk) == [tk EXCEPT !.expiry = LongExpired]
Forged(tk) == [tk EXCEPT !.sigOk = FALSE]

\* role is the declared role string ('participant' when absent), name the
\* declared identity, key and token the proofs the request carries
Request(role, name, key, token) ==
  [role |-> role, name |-> name, key |-> key, token |-> token]

\* Another student's valid token for the name amy
OtherStudent == Request("participant", "amy", None, Some(GoodToken("amy", "u2")))

ParticipantRequests ==
  { Request("participant", "amy", None, tk)
    : tk \in { None, Some(GoodToken("amy", "u1")), Some(Expired(GoodToken("amy", "u1"))),
               Some(Forged(GoodToken("amy", "u1"))), Some(GoodToken("bob", "u1")) } }
  \cup { Request("participant", "bob", None, Some(GoodToken("bob", "u1"))),
         Request("participant", "b@d", None, Some(GoodToken("b@d", "u1"))),
         OtherStudent }

UpgradeRequests ==
  { Request("admin", "unknown", k, None) : k \in AdminKeys }
  \cup ParticipantRequests
  \cup { Request("observer", "amy", None, None) }

CsvRequests ==
  { Request("admin", "", k, None) : k \in AdminKeys }
  \cup ParticipantRequests
  \cup { Request("observer", "amy", None, None) }

GameA == [ max_participants |-> 2, num_periods |-> 2, auto_advance_time |-> 2,
           gen_preset |-> "simple", load_profile |-> "flat" ]
CreatePayloads == { None, Some(GameA) }
UpdatePayloads == { None, Some([max_participants |-> 1]) }

Num(n) == [kind |-> "num", v |-> n]
NaN == [kind |-> "nan", v |-> 0]
OfferValues == { Num(20) }
\* offers for generator 1 and for an id that names no generator
OfferPayloads ==
  { None, Some([offers |-> None]) }
  \cup { Some([offers |-> Some((1 :> v) @@ (99 :> NaN))]) : v \in OfferValues }

Commands ==
  { [type |-> "createGame", payload |-> p] : p \in CreatePayloads }
  \cup { [type |-> "updateOptions", payload |-> p] : p \in UpdatePayloads }
  \cup { [type |-> t, payload |-> None] : t \in {"startGame", "advancePeriod", "resetGame", "bogus"} }
  \cup { [type |-> "setAutoAdvance", payload |-> p]
         : p \in { None, Some([enabled |-> FALSE]) } }
  \cup { [type |-> "setVisibility", payload |-> p]
         : p \in { None, Some([visibility |-> "public"]), Some([visibility |-> "secret"]) } }
  \cup { [type |-> "submitOffers", payload |-> p] : p \in OfferPayloads }
  \cup { [type |-> "kickPlayer", payload |-> p]
         : p \in { None, Some([playerId |-> "amy"]) } }
  \cup { [type |-> "rewardPlayer", payload |-> p]
         : p \in { None, Some([playerId |-> "amy", amount |-> Num(0)]),
                   Some([playerId |-> "amy", amount |-> NaN]) } }

NoChoice == [order |-> << >>, load |-> 0]
\* The shuffle's outcomes the model draws from: those that leave equal
\* offers in the order of their generator ids.
IdOrdered(gens, o) ==
  \A i, j \in 1..Len(o) : (i < j /\ gens[o[i]].offer = gens[o[j]].offer) => o[i] < o[j]

\* The outcomes of shuffle and jitter that an advance of g can use.
ClearingChoices(g) ==
  IF g.state = "running" /\ g.period >= 1 /\ IsSome(g.options)
  THEN { [order |-> o, load |-> l]
         : o \in { x \in computeMeritOrder(g.gens) : IdOrdered(g.gens, x) },
           l \in jitteredLoads(g, g.period) }
  ELSE { NoChoice }

(***************************************************************************)
(* The handlers of MarketRoom.  Each is an operator from the actor's state *)
(* and the handler's inputs to what it did (Out), and an action that       *)
(* commits it.  delivered is the fate of a request to the directory.       *)
(***************************************************************************)
setMarketName(st) ==
  IF st.marketName = ""
  THEN [st EXCEPT !.marketName = MarketParam, !.storage.marketName = Some(MarketParam)]
  ELSE st

\* Whether a request carries a valid proof for its declared role
ProofOk(req, t) ==
  IF req.role = "admin" THEN isAdmin(req.key, t)
  ELSE /\ IsSome(verifyPlayerToken(req.token, t))
       /\ Val(verifyPlayerToken(req.token, t)).name = req.name

\* fetch with Upgrade: websocket -> handleWebSocketUpgrade
handleWebSocketUpgrade(req, delivered) ==
  LET info == [NoInfo EXCEPT !.op = "upgrade"]
      then == [kind |-> "upgrade", role |-> req.role, name |-> req.name]
      verified == verifyPlayerToken(req.token, now)
  IN IF req.role = "admin" /\ ~isAdmin(req.key, now)
     THEN Out(St, pending, [info EXCEPT !.status = 401])
     ELSE IF req.role = "admin"
     THEN Finish(setMarketName(St), then, FALSE, info, pending)
     ELSE IF req.role = "participant"
     THEN IF ~IsSome(verified) \/ Val(verified).name # req.name
          THEN Out(St, pending, [info EXCEPT !.status = 403, !.type = "invalid_session"])
          ELSE LET st1 == setMarketName(St)
               IN IF HasPlayer(st1.game.players, req.name)
                  THEN IF GetPlayer(st1.game.players, req.name).uin # Val(verified).uin
                       THEN Out(st1, pending,
                                [info EXCEPT !.status = 403, !.type = "other_student"])
                       ELSE Finish(st1, then, FALSE, info, pending)
                  ELSE LET r == joinGame(st1.game, st1.kickedPlayers, req.name,
                                         Val(verified).uin)
                       IN IF r.result = "ok"
                          THEN PersistAndBroadcast([st1 EXCEPT !.game = r.game], NoSock, then,
                                                   [info EXCEPT !.changed = TRUE], delivered)
                          ELSE Out(st1, pending,
                                   [info EXCEPT !.status = 403, !.type = r.result])
     ELSE Finish(St, then, FALSE, info, pending)

\* A socket is free for the request and for each suspended upgrade, or the
\* request is for tags that are connected; the other student asks for the
\* name amy only while it is held
UpgradeEnabled(req) ==
  /\ \/ NumSockets(conns)
          + Cardinality({ i \in 1..Len(pending) : pending[i].then.kind = "upgrade" })
            < MaxConns
     \/ Tag(req.role, req.name) \in Sockets(conns)
  /\ req = OtherStudent => HasPlayer(game.players, req.name)

\* Requests arrive and alarms fire up to MaxElapsed after Epoch; an alarm that
\* fires takes the clock to its instant.
InWindow == now <= Epoch + MaxElapsed

Upgrade(req, delivered) ==
  /\ InWindow
  /\ UpgradeEnabled(req)
  /\ Commit(handleWebSocketUpgrade(req, delivered))
  /\ now' = now

\* webSocketMessage after handleMessage returned r (or threw)
messageHandled(c, msg, r, delivered) ==
  LET info == [ NoInfo EXCEPT !.op = "message", !.conn = Some(c), !.type = msg.type,
                              !.changed = r.changed, !.threw = r.threw ]
  IN IF r.threw
     THEN Out(sendError(r.st, c, "Server error processing your request."), pending, info)
     ELSE IF r.changed
     THEN PersistAndBroadcast(r.st, IF msg.type = "submitOffers" THEN Some(c) ELSE NoSock,
                              NoThen, info, delivered)
     ELSE IF msg.type # "submitOffers"
     THEN Out(sendError(r.st, c, "Action not allowed in current state."), pending, info)
     ELSE Out(r.st, pending, info)

\* webSocketMessage with a parsed JSON text frame
webSocketMessage(c, msg, choice, delivered) ==
  messageHandled(c, msg, handleMessage(St, c.role, c.name, msg, choice, now), delivered)

\* The outcomes of shuffle and jitter open to a command
ChoicesFor(c, msg) ==
  IF msg.type = "advancePeriod" /\ c.role = "admin" THEN ClearingChoices(game)
  ELSE { NoChoice }

WsMessage(c, msg, choice, delivered) ==
  /\ InWindow
  /\ c \in Sockets(conns)
  /\ choice \in ChoicesFor(c, msg)
  /\ Commit(webSocketMessage(c, msg, choice, delivered))
  /\ now' = now

\* webSocketClose: the peer's close (its own, or the answer to the server's)
webSocketClose(c) ==
  LET st1 == broadcastConnectedClientsToAdmins([St EXCEPT !.conns = RemoveOne(@, c)])
      st2 == IF st1.conns = EmptyBag /\ st1.game.state # "running"
                /\ st1.game.state # "completed"
             THEN scheduleCleanupAlarm(st1, now) ELSE st1
  IN Out(st2, pending, [NoInfo EXCEPT !.op = "close", !.conn = Some(c)])

WsClose(c) ==
  /\ InWindow
  /\ c \in Sockets(conns)
  /\ Commit(webSocketClose(c))
  /\ now' = now

\* webSocketError: the socket is gone
webSocketError(c) ==
  Out([ St EXCEPT !.conns = RemoveOne(@, c), !.closed = {<<c, WS_CLOSE_SEND_FAILED>>} ],
      pending, [NoInfo EXCEPT !.op = "error", !.conn = Some(c)])

WsError(c) ==
  /\ InWindow
  /\ c \in Sockets(conns)
  /\ Commit(webSocketError(c))
  /\ now' = now

\* An alarm() whose cleanup does not look at the connections
alarmCleansAttended(t, choice, delivered) ==
  LET st0 == [St EXCEPT !.alarm = None]
      cleanupAt == st0.storage.cleanupAt
      info == [NoInfo EXCEPT !.op = "alarm"]
  IN IF IsSome(cleanupAt) /\ t >= Val(cleanupAt) - CLEANUP_JITTER_MS
     THEN IF st0.game.state # "running"
          THEN RemoveThenDeleteAll(st0, [info EXCEPT !.type = "cleanup", !.changed = TRUE],
                                   delivered)
          ELSE Out(st0, pending, [info EXCEPT !.type = "ignored"])
     ELSE IF st0.game.state = "running" /\ st0.game.auto_advance
     THEN PersistAndBroadcast(handleAdvancePeriod(st0, choice, t).st, NoSock, NoThen,
                              [info EXCEPT !.type = "advancePeriod", !.changed = TRUE],
                              delivered)
     ELSE Out(st0, pending, [info EXCEPT !.type = "ignored"])

\* alarm() at time t, with the platform's slot already cleared
alarmHandler(t, choice, delivered) ==
  LET st0 == [St EXCEPT !.alarm = None]
      cleanupAt == st0.storage.cleanupAt
      info == [NoInfo EXCEPT !.op = "alarm"]
  IN IF IsSome(cleanupAt) /\ t >= Val(cleanupAt) - CLEANUP_JITTER_MS
     THEN IF st0.game.state # "running" /\ st0.conns = EmptyBag
          THEN RemoveThenDeleteAll(st0, [info EXCEPT !.type = "cleanup", !.changed = TRUE],
                                   delivered)
          ELSE IF st0.conns # EmptyBag
          THEN Out(scheduleCleanupAlarm(st0, t), pending, [info EXCEPT !.type = "reschedule"])
          ELSE Out(st0, pending, [info EXCEPT !.type = "ignored"])
     ELSE IF st0.game.state = "running" /\ st0.game.auto_advance
     THEN PersistAndBroadcast(handleAdvancePeriod(st0, choice, t).st, NoSock, NoThen,
                              [info EXCEPT !.type = "advancePeriod", !.changed = TRUE],
                              delivered)
     ELSE Out(st0, pending, [info EXCEPT !.type = "ignored"])

\* Time passes until the armed instant and the alarm fires
Alarm(choice, delivered) ==
  /\ InWindow
  /\ IsSome(alarm)
  /\ choice \in ClearingChoices(game)
  /\ Commit(alarmHandler(Max(now, Val(alarm)), choice, delivered))
  /\ now' = Max(now, Val(alarm))

\* POST /reset
restReset(key, delivered) ==
  LET info == [NoInfo EXCEPT !.op = "rest", !.type = "reset"]
  IN IF ~isAdmin(key, now) THEN Out(St, pending, [info EXCEPT !.status = 401])
     ELSE IF game.state = "running" THEN Out(St, pending, [info EXCEPT !.status = 409])
     ELSE PersistAndBroadcast(handleResetGame(St).st, NoSock, NoThen,
                              [info EXCEPT !.status = 200, !.changed = TRUE], delivered)

RestReset(key, delivered) ==
  /\ InWindow
  /\ Commit(restReset(key, delivered))
  /\ now' = now

\* POST /destroy
restDestroy(key, delivered) ==
  LET info == [NoInfo EXCEPT !.op = "rest", !.type = "destroy"]
  IN IF ~isAdmin(key, now) THEN Out(St, pending, [info EXCEPT !.status = 401])
     ELSE LET st1 == closeSockets(St, Sockets(conns), WS_CLOSE_DELETED)
              st2 == [st1 EXCEPT !.game = defaultGameState, !.alarm = None]
          IN RemoveThenDeleteAll(st2, [info EXCEPT !.status = 200, !.changed = TRUE],
                                 delivered)

RestDestroy(key, delivered) ==
  /\ InWindow
  /\ Commit(restDestroy(key, delivered))
  /\ now' = now

\* POST /settings
restSettings(key, visibility, delivered) ==
  LET info == [NoInfo EXCEPT !.op = "rest", !.type = "settings"]
  IN IF ~isAdmin(key, now) THEN Out(St, pending, [info EXCEPT !.status = 401])
     ELSE IF visibility \in {"public", "unlisted"} /\ game.visibility # visibility
     THEN PersistAndBroadcast([St EXCEPT !.game.visibility = visibility], NoSock, NoThen,
                              [info EXCEPT !.status = 200, !.changed = TRUE], delivered)
     ELSE Out(St, pending, [info EXCEPT !.status = 200])

RestSettings(key, visibility, delivered) ==
  /\ InWindow
  /\ Commit(restSettings(key, visibility, delivered))
  /\ now' = now

\* The body of GET /csv-data for a request that passed the checks
csvData(st, role, name) ==
  LET allPeriods == loadPeriodsFromStorage(st)
  IN [ periods |-> IF role = "admin" THEN allPeriods
                   ELSE [ i \in 1..Len(allPeriods) |->
                            [ allPeriods[i] EXCEPT
                                !.players = [ n \in {name} |->
                                                IF n \in DOMAIN allPeriods[i].players
                                                THEN allPeriods[i].players[n] ELSE NullRow ],
                                !.gens = [ k \in { j \in DOMAIN allPeriods[i].gens :
                                                     j \in 1..Len(st.game.gens)
                                                     /\ st.game.gens[j].owner = name } |->
                                             allPeriods[i].gens[k] ] ] ],
       players |-> IF role = "admin" THEN stripPlayerInternals(st.game.players)
                   ELSE [ n \in {name} |->
                            IF HasPlayer(st.game.players, n)
                            THEN Some([ money |-> GetPlayer(st.game.players, n).money,
                                        last_offer_time |->
                                          GetPlayer(st.game.players, n).last_offer_time ])
                            ELSE None ],
       gens |-> IF role = "admin" THEN SeqToSet(st.game.gens)
                ELSE filterGens(name, st.game.gens),
       options |-> st.game.options ]

\* GET /csv-data
restCsvData(req) ==
  LET info == [NoInfo EXCEPT !.op = "rest", !.type = "csv-data"]
      verified == verifyPlayerToken(req.token, now)
  IN IF req.role = "admin" /\ ~isAdmin(req.key, now)
     THEN Out(St, pending, [info EXCEPT !.status = 401])
     ELSE IF req.role = "participant"
             /\ (~IsSome(verified) \/ Val(verified).name # req.name)
     THEN Out(St, pending, [info EXCEPT !.status = 401])
     ELSE Out(St, pending, [ info EXCEPT !.status = 200,
                                         !.response = Some(csvData(St, req.role, req.name)) ])

RestCsvData(req) ==
  /\ InWindow
  /\ Commit(restCsvData(req))
  /\ now' = now

\* The constructor's restore under blockConcurrencyWhile: the in-memory
\* fields of an actor constructed over the storage of st
restore(st) ==
  [ st EXCEPT
      !.game = IF IsSome(st.storage.game)
               THEN LET stored == Val(st.storage.game)
                    IN [ f \in DOMAIN stored \cup {"periods"} |->
                           IF f = "periods" THEN << >>
                           ELSE IF f = "nplayers" THEN Len(stored.players)
                           ELSE stored[f] ]
               ELSE defaultGameState,
      !.marketName = IF IsSome(st.storage.marketName) THEN Val(st.storage.marketName)
                     ELSE "",
      !.kickedPlayers = IF IsSome(st.storage.kickedPlayers)
                        THEN Val(st.storage.kickedPlayers) ELSE {},
      !.lastRegistrySnapshot = st.storage.registrySnapshot,
      !.kickedPlayersDirty = FALSE,
      !.lastClearedPeriod = None ]

\* The actor is evicted between two requests and constructed again.
\* Accepted sockets and the alarm survive.
Evict ==
  /\ pending = << >>
  /\ Commit(Out(restore(St), pending, [NoInfo EXCEPT !.op = "evict"]))
  /\ now' = now

\* The suspended handler k continues after its await of the directory; rest
\* is the handlers that stay suspended
resumed(k, rest) ==
  IF k.kind = "deleteAll"
  THEN Out([St EXCEPT !.storage = emptyStorage], rest, [k.info EXCEPT !.phase = "done"])
  ELSE Finish(broadcastGameState(afterRegistryPush(St, k.snapshot, k.updated),
                                 k.submitter, k.wrote),
              k.then, k.wrote, k.info, rest)

resume(i) == resumed(pending[i], RemoveAt(pending, i))

Resume(i) ==
  /\ i \in 1..Len(pending)
  /\ Commit(resume(i))
  /\ now' = now

\* webSocketMessage with a binary frame, a 'ping' or a text that is not JSON
WsIgnoredFrame(c) ==
  /\ InWindow
  /\ c \in Sockets(conns)
  /\ UNCHANGED vars

Fates == {TRUE}
Visibilities == {"public", "secret"}

Next ==
  \/ \E req \in UpgradeRequests, d \in Fates : Upgrade(req, d)
  \/ \E c \in Sockets(conns), msg \in Commands, d \in Fates :
       \E choice \in ChoicesFor(c, msg) : WsMessage(c, msg, choice, d)
  \/ \E c \in Sockets(conns) : WsIgnoredFrame(c)
  \/ \E c \in Sockets(conns) : WsClose(c)
  \/ \E c \in Sockets(conns) : WsError(c)
  \/ \E d \in Fates : \E choice \in ClearingChoices(game) : Alarm(choice, d)
  \/ \E key \in AdminKeys, d \in Fates : RestReset(key, d)
  \/ \E key \in AdminKeys, d \in Fates : RestDestroy(key, d)
  \/ \E key \in AdminKeys, v \in Visibilities, d \in Fates : RestSettings(key, v, d)
  \/ \E req \in CsvRequests : RestCsvData(req)
  \/ Evict
  \/ \E i \in 1..MaxPending : Resume(i)

Spec == Init /\ [][Next]_vars

(***************************************************************************)
(* Properties.  A property of what a handler answers or sends is stated    *)
(* over the handler's result (Out) for every input in every reachable      *)
(* state; a property of how the state moves is stated over the steps.      *)
(***************************************************************************)
\* The handler result o stays within the model's bounds: it accepted no
\* connection beyond MaxConns and leaves no more than MaxPending handlers
\* suspended, or no more than are suspended already
Within(o) == o.ok /\ Len(o.pend) <= Max(MaxPending, Len(pending))

\* An upgrade request is admitted: answered with 101 and sent its snapshot
Admitted(o) ==
  /\ Within(o)
  /\ o.info.status = 101
  /\ \E m \in o.st.sent : m.type = "gameState" /\ Some(m.to) = o.info.conn /\ m.payload.initial

\* C1: every connection the actor admits carries a valid proof for its
\* declared role, whatever the declared role string is: a request whose proof
\* is missing, invalid or expired is not admitted and is sent no projection.
C1_AdmittedCarryProof ==
  \A req \in UpgradeRequests, d \in Fates :
    Admitted(handleWebSocketUpgrade(req, d)) => ProofOk(req, now)

\* The same for the requests that declare the role admin or participant
DeclaredRolesCarryProof ==
  \A req \in UpgradeRequests, d \in Fates :
    (req.role \in {"admin", "participant"} /\ Admitted(handleWebSocketUpgrade(req, d)))
      => ProofOk(req, now)

\* The projections the actor sends in the current state: the incremental
\* push to every socket and the initial snapshot of a socket
ProjectionsSent ==
  broadcastGameState(St, NoSock, TRUE).sent
    \cup UNION { sendInitialState(St, c, FALSE).sent : c \in Sockets(conns) }

\* The projection v, made for identity P, shows nothing of another identity
NoLeak(P, v) ==
  /\ \A g \in v.gens : g.owner = P
  /\ \A n \in DOMAIN v.players :
       n # P => v.players[n].money = 0 /\ v.players[n].last_offer_time = 0
  /\ \A i \in 1..Len(v.periods) :
       /\ DOMAIN v.periods[i].players \subseteq {P}
       /\ DOMAIN v.periods[i] = {"number", "load", "marginal_cost", "players"}

\* C2: the projection sent to a participant identity P contains no generator
\* owned by another identity, no balance or submission timestamp of another
\* identity other than zero, and for each cleared period no settlement row of
\* another identity and no per-generator offer or dispatch.
C2_ProjectionDoesNotLeak ==
  \A m \in ProjectionsSent :
    (m.type = "gameState" /\ m.to.role # "admin") => NoLeak(m.to.name, m.payload)

\* amy is connected and is sent projections of a game in which bob has a
\* balance, a submission timestamp, generators and a settled period
C2_Witness ==
  /\ Tag("participant", "amy") \in Sockets(conns)
  /\ HasPlayer(game.players, "amy") /\ HasPlayer(game.players, "bob")
  /\ GetPlayer(game.players, "bob").money # 0
  /\ GetPlayer(game.players, "bob").last_offer_time # 0
  /\ \E k \in 1..Len(game.gens) : game.gens[k].owner = "bob"
  /\ IsSome(lastClearedPeriod)
  /\ "bob" \in DOMAIN Val(lastClearedPeriod).players
  /\ Len(loadPeriodsFromStorage(St)) >= 2

ResetMsg == [type |-> "resetGame", payload |-> None]

\* A handler's result leaves the game record as it is
KeepsGame(o) == ~o.info.changed /\ o.st.game = game

\* A reset, by command or by POST /reset, is refused while the game is running
ResetRefusedWhileRunning ==
  game.state = "running" =>
    /\ \A c \in Sockets(conns), d \in Fates :
         KeepsGame(webSocketMessage(c, ResetMsg, NoChoice, d))
    /\ \A key \in AdminKeys, d \in Fates : KeepsGame(restReset(key, d))

\* C3: completed is entered only from running, running only from forming or
\* full, no step moves a running game to forming or full, and a reset is
\* never accepted while the game is running.
C3_LifecycleOrder ==
  /\ []ResetRefusedWhileRunning
  /\ [][ /\ ((game'.state = "completed" /\ game.state # "completed")
               => game.state = "running")
        /\ ((game'.state = "running" /\ game.state # "running")
               => game.state \in {"forming", "full"})
        /\ (game.state = "running" => game'.state \notin {"forming", "full"}) ]_vars

\* A game that was formed and started has cleared a period and is running,
\* with an admin connected whose reset is refused
C3_Witness ==
  /\ game.state = "running"
  /\ game.period >= 2
  /\ \E c \in Sockets(conns) :
       c.role = "admin" /\ KeepsGame(webSocketMessage(c, ResetMsg, NoChoice, TRUE))
  /\ restReset(Some(GoodKey), TRUE).info.status = 409

\* The place of a lifecycle state in the order uninitialized, forming/full,
\* running, completed
Rank(state) ==
  CASE state = "uninitialized" -> 0
    [] state \in {"forming", "full"} -> 1
    [] state = "running" -> 2
    [] state = "completed" -> 3

MovesForward(o) == Within(o) => Rank(o.st.game.state) >= Rank(game.state)

\* C4: no command other than reset moves the lifecycle backwards: the state
\* stays, toggles between forming and full, or moves forward in the order
\* uninitialized, forming/full, running, completed.
C4_NoBackEdgeWithoutReset ==
  \A c \in Sockets(conns), msg \in Commands, d \in Fates :
    msg.type # "resetGame" =>
      \A choice \in ChoicesFor(c, msg) : MovesForward(webSocketMessage(c, msg, choice, d))

\* The same for every command other than reset and create-game
NoBackEdgeButCreate ==
  \A c \in Sockets(conns), msg \in Commands, d \in Fates :
    msg.type \notin {"resetGame", "createGame"} =>
      \A choice \in ChoicesFor(c, msg) : MovesForward(webSocketMessage(c, msg, choice, d))

KnownTypes ==
  { "createGame", "updateOptions", "startGame", "advancePeriod", "setAutoAdvance",
    "setVisibility", "submitOffers", "resetGame", "kickPlayer", "rewardPlayer" }
PayloadTypes ==
  { "createGame", "updateOptions", "setAutoAdvance", "setVisibility", "submitOffers",
    "kickPlayer", "rewardPlayer" }

\* The command is of an unknown type, lacks its payload or comes from the
\* wrong role
Malformed(c, msg) ==
  \/ msg.type \notin KnownTypes
  \/ msg.type \in PayloadTypes /\ ~IsSome(msg.payload)
  \/ msg.type = "submitOffers" /\ c.role # "participant"
  \/ msg.type \in KnownTypes \ {"submitOffers"} /\ c.role # "admin"

\* The handler's result o leaves everything as it was and is complete
NoOp(o) ==
  /\ o.info.phase = "done" /\ ~o.info.changed
  /\ o.st.game = game
  /\ o.st.kickedPlayers = kickedPlayers
  /\ o.st.storage = storage
  /\ o.st.alarm = alarm
  /\ o.st.conns = conns /\ o.st.closed = {}
  /\ o.pend = pending

RejectedIsNoOp(c, msg, o) ==
  (Within(o) /\ (Malformed(c, msg) \/ ~o.info.changed)) => NoOp(o)

\* C5: a command sent by the wrong role, sent in a lifecycle state where it
\* is not accepted, or carrying an unknown type or a missing payload is a
\* no-op: the game record, the banned set, the stored keys, the armed timer
\* and the open connections are after it as before, and the handler is done.
C5_RejectedIsNoOp ==
  \A c \in Sockets(conns), msg \in Commands, d \in Fates :
    \A choice \in ChoicesFor(c, msg) :
      RejectedIsNoOp(c, msg, webSocketMessage(c, msg, choice, d))

Refused(c, type, payload) ==
  ~webSocketMessage(c, [type |-> type, payload |-> payload], NoChoice, TRUE).info.changed

\* In a running game with a timer armed and periods stored, a participant's
\* start-game (wrong role), an admin's start-game (wrong state), an unknown
\* type and a kick without payload are refused
C5_Witness ==
  /\ game.state = "running" /\ IsSome(alarm) /\ storage.periods # << >>
  /\ \E c \in Sockets(conns) : c.role = "participant" /\ Refused(c, "startGame", None)
  /\ \E c \in Sockets(conns) :
       /\ c.role = "admin"
       /\ Refused(c, "startGame", None)
       /\ Refused(c, "bogus", None)
       /\ Refused(c, "kickPlayer", None)

ErrorsOnlyTo(c, o) == \A m \in o.st.sent : m.type = "error" /\ m.to = c
ErrorTo(c, o) == \E m \in o.st.sent : m.type = "error" /\ m.to = c

RejectedGetsError(c, o) == (Within(o) /\ ~o.info.changed) => (ErrorTo(c, o) /\ ErrorsOnlyTo(c, o))

RejectedGetsErrorButOffers(c, msg, o) ==
  (Within(o) /\ ~o.info.changed) =>
     /\ ErrorsOnlyTo(c, o)
     /\ ((msg.type # "submitOffers" \/ o.info.threw) => ErrorTo(c, o))
     /\ ((msg.type = "submitOffers" /\ ~o.info.threw) => o.st.sent = {})

C7_OneAtATime ==
  [][ (pending # << >> /\ Len(pending') >= Len(pending)) => game' = game ]_vars

\* The in-memory fields of r, the actor constructed again, are those of now
SameGame(r) == r.game = game
SameOthers(r) ==
  /\ r.kickedPlayers = kickedPlayers
  /\ r.lastRegistrySnapshot = lastRegistrySnapshot
  /\ r.marketName = marketName
SameClearedPeriod(r) == r.lastClearedPeriod = lastClearedPeriod

\* C8: eviction is invisible: if the actor is evicted and restored between
\* two requests, the game record, the banned set, the most recent cleared
\* period, the last published directory summary and the market name have
\* after the restore the value they had before the eviction.
C8_EvictionInvisible ==
  pending = << >> =>
    SameGame(restore(St)) /\ SameOthers(restore(St)) /\ SameClearedPeriod(restore(St))

\* The same for the most recent cleared period alone
EvictionKeepsClearedPeriod == pending = << >> => SameClearedPeriod(restore(St))

\* The same for the game record alone
EvictionKeepsGame == pending = << >> => SameGame(restore(St))

\* P of the result of every handler, for every input, in the current state
OfEveryResult(P(_)) ==
  /\ \A c \in Sockets(conns), msg \in Commands, d \in Fates :
       \A choice \in ChoicesFor(c, msg) : P(webSocketMessage(c, msg, choice, d))
  /\ \A req \in UpgradeRequests, d \in Fates : P(handleWebSocketUpgrade(req, d))
  /\ \A d \in Fates :
       IsSome(alarm) => \A choice \in ClearingChoices(game) :
                          P(alarmHandler(Max(now, Val(alarm)), choice, d))
  /\ \A key \in AdminKeys, d \in Fates : P(restReset(key, d))
  /\ \A key \in AdminKeys, v \in Visibilities, d \in Fates : P(restSettings(key, v, d))
  /\ \A i \in 1..Len(pending) : P(resume(i))

\* The handler of o made a mutation of the live record and has finished; the
\* handlers that delete the market (destroy, cleanup) write no record
Mutated(o) ==
  /\ Within(o) /\ o.info.changed /\ o.info.phase = "done"
  /\ o.info.type \notin {"destroy", "cleanup"}

PushTo(c, o) == \E m \in o.st.sent : m.type = "gameState" /\ m.to = c
WrittenBeforePush(o) == \A m \in o.st.sent : m.type = "gameState" => m.persisted

PersistThenPushAll(o) ==
  Mutated(o) => (WrittenBeforePush(o) /\ \A c \in Sockets(o.st.conns) : PushTo(c, o))

FromOffers(o) == o.info.op = "message" /\ o.info.type = "submitOffers"

PersistThenPush(o) ==
  Mutated(o) =>
    /\ WrittenBeforePush(o)
    /\ \A c \in Sockets(o.st.conns) :
         PushTo(c, o) <=> (~FromOffers(o) \/ c.role = "admin" \/ Some(c) = o.info.conn)

AdmissionReplaces(o) ==
  Admitted(o) =>
    /\ o.st.conns[Val(o.info.conn)] = 1
    /\ o.st.closed = IF CopiesIn(Val(o.info.conn), conns) > 0
                     THEN { <<Val(o.info.conn), WS_CLOSE_REPLACED>> } ELSE {}
    /\ \A c \in Sockets(conns) \ {Val(o.info.conn)} : CopiesIn(c, o.st.conns) = conns[c]

\* C10: last-connection-wins: when a connection is admitted for a role and
\* identity that already has an open connection, every prior connection with
\* the same role and identity is closed with the code 4000, so after each
\* admission at most one open connection exists per role and identity;
\* connections of other identities are not closed.
C10_LastConnectionWins ==
  /\ \A c \in Sockets(conns) : conns[c] = 1
  /\ \A req \in UpgradeRequests, d \in Fates :
       AdmissionReplaces(handleWebSocketUpgrade(req, d))
  /\ \A i \in 1..Len(pending) : AdmissionReplaces(resume(i))

\* With amy and another identity connected, a second connection of amy is
\* admitted: the first is closed and the other stays
C10_Witness ==
  /\ NumSockets(conns) = 2
  /\ Tag("participant", "amy") \in Sockets(conns)
  /\ \E req \in UpgradeRequests :
       /\ req.role = "participant" /\ req.name = "amy"
       /\ LET o == handleWebSocketUpgrade(req, TRUE)
          IN Admitted(o) /\ o.st.closed # {} /\ NumSockets(o.st.conns) = 2

(***************************************************************************)
(* Joining, kicking, resetting and the advance                             *)
(***************************************************************************)
\* The upgrade request was answered 403 and changed neither the player map,
\* nor the lifecycle state, nor the open connections
JoinRejected(o) ==
  /\ Within(o) /\ o.info.status = 403 /\ o.info.phase = "done"
  /\ o.st.game.players = game.players
  /\ o.st.game.state = game.state
  /\ o.st.conns = conns /\ o.st.closed = {}

\* A participant's request with a valid token that must not be admitted: a
\* new identity while the state is not forming or with a malformed name, or a
\* name held under a different secret
MustRejectJoin(req) ==
  /\ req.role = "participant" /\ ProofOk(req, now)
  /\ \/ ~HasPlayer(game.players, req.name) /\ game.state # "forming"
     \/ ~HasPlayer(game.players, req.name) /\ ~isValidName(req.name)
     \/ /\ HasPlayer(game.players, req.name)
        /\ GetPlayer(game.players, req.name).uin # Val(verifyPlayerToken(req.token, now)).uin

JoinsRejected ==
  \A req \in UpgradeRequests, d \in Fates :
    MustRejectJoin(req) => JoinRejected(handleWebSocketUpgrade(req, d))

\* C11: a new identity is added to the player map only by a join while the
\* state is forming; a participant's join attempt in any other state, with a
\* malformed name, or with a name held under a different secret is rejected
\* before upgrade and leaves the player map, the lifecycle state and the open
\* connections unchanged.
C11_JoinOnlyWhileForming ==
  /\ []JoinsRejected
  /\ [][ PlayerNames(game'.players) \subseteq PlayerNames(game.players)
         \/ /\ game.state = "forming"
            /\ Cardinality(PlayerNames(game'.players) \ PlayerNames(game.players)) = 1
            /\ \E req \in ParticipantRequests, d \in Fates :
                 /\ ProofOk(req, now)
                 /\ game' = handleWebSocketUpgrade(req, d).st.game ]_vars

\* amy plays in a running game: bob's join, the join of a malformed name and
\* the other student's request for the name amy are rejected
C11_Witness ==
  /\ game.state = "running"
  /\ HasPlayer(game.players, "amy") /\ ~HasPlayer(game.players, "bob")
  /\ \A req \in ParticipantRequests :
       (ProofOk(req, now) /\ req.name # "amy") => MustRejectJoin(req)
  /\ MustRejectJoin(OtherStudent)
  /\ JoinRejected(handleWebSocketUpgrade(OtherStudent, TRUE))

KickMsg(n) == [type |-> "kickPlayer", payload |-> Some([playerId |-> n])]

\* An accepted kick of n: the state was forming or full, n has left the
\* player map and is banned, and the connections of n, and only those, were
\* closed with the code 4001
KickEffect(n, o) ==
  (Within(o) /\ o.info.changed) =>
    /\ game.state \in {"forming", "full"}
    /\ HasPlayer(game.players, n) /\ ~HasPlayer(o.st.game.players, n)
    /\ n \in o.st.kickedPlayers
    /\ Tag("participant", n) \notin Sockets(o.st.conns)
    /\ o.st.closed = { <<c, WS_CLOSE_KICKED>> : c \in Sockets(conns) \cap {Tag("participant", n)} }
    /\ \A c \in Sockets(conns) \ {Tag("participant", n)} : CopiesIn(c, o.st.conns) = conns[c]

KicksTakeEffect ==
  \A c \in Sockets(conns), n \in Names, d \in Fates :
    KickEffect(n, webSocketMessage(c, KickMsg(n), NoChoice, d))

\* Every join attempt of a banned identity is rejected before upgrade
BannedRejected ==
  \A req \in UpgradeRequests, d \in Fates :
    (req.role = "participant" /\ req.name \in kickedPlayers)
      => JoinRejected(handleWebSocketUpgrade(req, d))

\* No identity is both banned and in the player map
BannedNotPlaying == kickedPlayers \cap PlayerNames(game.players) = {}

\* C12: a kick is accepted only in forming or full; it removes the identity
\* from the player map and closes that identity's connections with the code
\* 4001; from then on every join attempt by that identity is rejected before
\* upgrade, until a new game is created or the game is reset; and no identity
\* is both banned and in the player map.
C12_KickBans ==
  /\ [](KicksTakeEffect /\ BannedRejected /\ BannedNotPlaying)
  /\ [][ \A n \in kickedPlayers :
           \/ n \in kickedPlayers'
           \/ game'.players = << >> /\ game'.state \in {"uninitialized", "forming"} ]_vars

\* After the reset of o the state is uninitialized, the player map and the
\* generator map are empty, the period counter is 0 and no cleared-period
\* record is stored
ResetDone(o) ==
  /\ o.info.changed
  /\ o.st.game.state = "uninitialized"
  /\ o.st.game.players = << >> /\ o.st.game.gens = << >>
  /\ o.st.game.period = 0
  /\ o.st.storage.periods = << >>

ResetAcceptedUnlessRunning ==
  game.state # "running" =>
    /\ \A c \in Sockets(conns), d \in Fates :
         LET o == webSocketMessage(c, ResetMsg, NoChoice, d)
         IN (c.role = "admin" /\ Within(o)) => ResetDone(o)
    /\ \A d \in Fates :
         LET o == restReset(Some(GoodKey), d)
         IN Within(o) => (o.info.status = 200 /\ ResetDone(o))

\* C13: a reset, by command or by the admin's force-reset request, is
\* accepted in every state except running; after it the state is
\* uninitialized, the player map and the generator map are empty, the period
\* counter is 0 and no cleared-period record remains in storage.
C13_ResetClears == ResetAcceptedUnlessRunning /\ ResetRefusedWhileRunning

\* A completed game with players, generators and stored periods, and an
\* admin connected whose reset is accepted
C13_Witness ==
  /\ game.state = "completed"
  /\ game.players # << >> /\ game.gens # << >> /\ storage.periods # << >>
  /\ \E c \in Sockets(conns) :
       /\ c.role = "admin"
       /\ ResetDone(webSocketMessage(c, ResetMsg, NoChoice, TRUE))
  /\ ResetDone(restReset(Some(GoodKey), TRUE))

\* In a running or completed game the stored cleared-period records are
\* those numbered 1 to period - 1, a running game has 1 <= period <=
\* num_periods, and a completed game is one past its last period
PeriodsStored ==
  game.state \in {"running", "completed"} =>
    /\ IsSome(game.options)
    /\ DOMAIN storage.periods = 1..(game.period - 1)
    /\ \A n \in DOMAIN storage.periods : storage.periods[n].number = n
    /\ game.state = "running" => game.period \in 1..Val(game.options).num_periods
    /\ game.state = "completed" => game.period = Val(game.options).num_periods + 1

\* A step that moves the period counter of a running game from N to N + 1:
\* from 0 it stores nothing, from N >= 1 it stores record N, and the game
\* becomes completed exactly when the counter exceeds num_periods
AdvanceStores ==
  (game.state = "running" /\ game'.period = game.period + 1 /\ game'.options = game.options)
    => /\ game.period = 0 => storage'.periods = storage.periods
       /\ game.period >= 1 =>
            /\ DOMAIN storage'.periods = DOMAIN storage.periods \cup {game.period}
            /\ storage'.periods[game.period].number = game.period
       /\ game'.state = "completed" <=> game'.period > Val(game.options).num_periods

\* C15: the first advance clears nothing; every later advance clears the
\* current period N and stores record N before the counter becomes N + 1; in
\* every running or completed state the stored cleared-period records are
\* exactly those numbered 1 to period - 1, a running game has
\* 1 <= period <= num_periods, and the game becomes completed exactly on the
\* advance that makes the period exceed num_periods.
C15_PeriodRecords == []PeriodsStored /\ [][AdvanceStores]_vars

\* The same while the market's record is in storage (the market has not been
\* deleted by the cleanup alarm)
PeriodRecordsWhileStored ==
  [](IsSome(storage.game) => PeriodsStored) /\ [][AdvanceStores]_vars

(***************************************************************************)
(* The deadline timer.  TimerSpec lets time pass beyond the first firing   *)
(* of the alarm: client commands arrive only in the window that starts at  *)
(* Epoch, and after it the actor is driven by its alarm alone.  The alarm  *)
(* is delivered at or after its armed instant (the platform retries it     *)
(* until alarm() returns), and a fetch to the directory returns, long      *)
(* before a cleanup delay has passed.                                      *)
(***************************************************************************)
\* Alarms armed up to TimerHorizon cleanup delays after Epoch are followed
TimerHorizon == 2

TimerRequests ==
  { Request("admin", "unknown", Some(GoodKey), None),
    Request("participant", "amy", None, Some(GoodToken("amy", "u1"))) }

TimerCommands ==
  { [type |-> "createGame", payload |-> Some(GameA)],
    [type |-> "startGame", payload |-> None],
    [type |-> "advancePeriod", payload |-> None],
    [type |-> "setAutoAdvance", payload |-> Some([enabled |-> TRUE])],
    [type |-> "setAutoAdvance", payload |-> Some([enabled |-> FALSE])] }

\* A fetch to the directory returns or fails long before a cleanup delay has
\* passed: no handler is still suspended when the clock reaches t
FetchesReturned(t) ==
  t - now >= CLEANUP_DELAY_MS - CLEANUP_JITTER_MS => pending = << >>

\* Time passes until the armed instant and the alarm fires
TimerAlarm(choice, delivered) ==
  /\ IsSome(alarm)
  /\ Val(alarm) <= Epoch + TimerHorizon * CLEANUP_DELAY_MS
  /\ FetchesReturned(Val(alarm))
  /\ choice \in ClearingChoices(game)
  /\ Commit(alarmHandler(Max(now, Val(alarm)), choice, delivered))
  /\ now' = Max(now, Val(alarm))

TimerFires == \E d \in Fates : \E choice \in ClearingChoices(game) : TimerAlarm(choice, d)

Resumes == \E i \in 1..MaxPending : Resume(i)

TimerNext ==
  \/ \E req \in TimerRequests, d \in Fates : Upgrade(req, d)
  \/ \E c \in Sockets(conns), msg \in TimerCommands, d \in Fates :
       \E choice \in ChoicesFor(c, msg) : WsMessage(c, msg, choice, d)
  \/ \E c \in Sockets(conns) : WsClose(c)
  \/ TimerFires
  \/ Evict
  \/ Resumes

\* Time reaches the instant the alarm is armed for.  In TimerSpec only a
\* firing of the alarm moves the clock, so a step of it that changes now is a
\* firing.
TimePasses ==
  /\ IsSome(alarm)
  /\ Val(alarm) <= Epoch + TimerHorizon * CLEANUP_DELAY_MS
  /\ FetchesReturned(Val(alarm))
  /\ Len(pending) < MaxPending
  /\ now' = Max(now, Val(alarm))

\* An awaited fetch to the directory returns (or fails) and its handler
\* continues.  Only Resume takes a suspended handler off pending.
FetchReturns == pending' \in { RemoveAt(pending, i) : i \in 1..Len(pending) }

\* An alarm armed for a later instant is delivered, and an awaited fetch
\* returns
TimerSpec == Init /\ [][TimerNext]_vars /\ WF_now(TimePasses) /\ WF_pending(FetchReturns)

\* In a running game with auto-advance enabled the deadline timer is armed at
\* the game's deadline; in a completed game no deadline is armed (the slot is
\* empty or holds the cleanup alarm)
DeadlineArmed ==
  /\ (game.state = "running" /\ game.auto_advance)
       => (IsSome(alarm) /\ Val(alarm) = game.advance_time)
  /\ game.state = "completed" => (IsSome(alarm) => alarm = storage.cleanupAt)

\* A firing in a running game with auto-advance enabled clears the current
\* period, stores its record, increments the counter, and arms the next
\* deadline unless the game is completed by it
FiringAdvances ==
  (TimerFires /\ game.state = "running" /\ game.auto_advance) =>
    /\ game'.period = game.period + 1
    /\ IsSome(lastClearedPeriod') /\ Val(lastClearedPeriod').number = game.period
    /\ game.period \in DOMAIN storage'.periods
    /\ storage'.periods[game.period] = Val(lastClearedPeriod')
    /\ game'.state = "completed" <=> game'.period > Val(game.options).num_periods
    /\ game'.state # "completed" =>
         /\ game'.state = "running"
         /\ game'.advance_time = now' + Val(game.options).auto_advance_time * 1000
         /\ alarm' = Some(game'.advance_time)
    /\ game'.state = "completed" => (IsSome(alarm') /\ alarm' = storage'.cleanupAt)

\* Whatever the shuffle and the jitter, alarm() leaves the game alone while
\* auto-advance is disabled
DisabledFiringIdle ==
  (game.state = "running" /\ ~game.auto_advance) =>
    \A d \in Fates : \A choice \in ClearingChoices(game) :
      alarmHandler(now, choice, d).st.game = game

\* Once no client command arrives any more
TimerDriven == now > Epoch + MaxElapsed

\* C14: in a running game with auto-advance enabled the deadline timer is
\* armed; each firing clears the current period, increments the period
\* counter and arms the next deadline; once no client command arrives the
\* game reaches completed, where no deadline is armed; and while auto-advance
\* is disabled a firing of the alarm does not advance the period.
C14_DeadlineTimer ==
  /\ [](DeadlineArmed /\ DisabledFiringIdle)
  /\ [][FiringAdvances]_vars
  /\ (game.state = "running" /\ game.auto_advance /\ TimerDriven) ~> (game.state = "completed")

\* The timer alone has completed a game: the last period was cleared by a
\* firing and the slot holds the cleanup alarm
C14_Witness ==
  /\ TimerDriven
  /\ game.state = "completed" /\ game.auto_advance
  /\ IsSome(lastClearedPeriod)
  /\ Val(lastClearedPeriod).number = Val(game.options).num_periods
  /\ IsSome(alarm) /\ alarm = storage.cleanupAt

(***************************************************************************)
(* Clearing of a period.  EngineSpec starts from running games in whose    *)
(* period the demand can reach and exceed the total capacity, lets the     *)
(* participants submit offers, and lets the deadline fire once with every  *)
(* outcome of the shuffle and of the jitter.                               *)
(***************************************************************************)
\* The period the games of EngineSpec are in.  Hour 9 of the realistic
\* profile has the multiplier 0.8047: the demand is 80 per player without
\* jitter, and with a jitter of 30 it ranges from below to above the
\* capacity of 100 per player.
EnginePeriods == {9}
EngineScarcity == {0, 25, 500}

EngineSetups ==
  { [ names |-> <<"amy">>,
      options |-> [ gen_preset |-> "standard", num_periods |-> p, payment_method |-> pm,
                    scarcity_price |-> sp, load_jitter |-> j ] ]
    : p \in EnginePeriods, pm \in VALID_PAYMENT_METHODS, sp \in EngineScarcity, j \in {0, 30} }
  \cup
  { [ names |-> <<"amy", "bob">>,
      options |-> [ gen_preset |-> "simple", max_participants |-> 2, num_periods |-> p,
                    payment_method |-> pm, scarcity_price |-> sp, load_jitter |-> 30 ] ]
    : p \in EnginePeriods, pm \in VALID_PAYMENT_METHODS, sp \in EngineScarcity }

\* The actor after construction, as a handler sees it
constructed ==
  [ game |-> defaultGameState, marketName |-> "", lastRegistrySnapshot |-> None,
    kickedPlayers |-> {}, kickedPlayersDirty |-> FALSE, lastClearedPeriod |-> None,
    storage |-> emptyStorage, alarm |-> None, registry |-> None, conns |-> EmptyBag,
    sent |-> {}, closed |-> {} ]

\* The participants of names join in turn and their sockets are accepted
RECURSIVE joined(_, _)
joined(st, names) ==
  IF names = << >> THEN st
  ELSE joined([ st EXCEPT
                  !.game = joinGame(st.game, st.kickedPlayers, Head(names), "u1").game,
                  !.conns = @ (+) SetToBag({ Tag("participant", Head(names)) }) ],
              Tail(names))

\* Periods are advanced, each with one outcome of shuffle and jitter, until
\* the game is in period p
RECURSIVE advancedTo(_, _)
advancedTo(st, p) ==
  IF st.game.state # "running" \/ st.game.period >= p THEN st
  ELSE advancedTo(handleAdvancePeriod(st, CHOOSE c \in ClearingChoices(st.game) : TRUE,
                                      Epoch).st, p)

\* The record is written and the summary published
published(st) ==
  [ afterRegistryPush(persistPut(st), buildSnapshot(st.game), TRUE)
      EXCEPT !.registry = pushToRegistry(st.game) ]

\* A game created by an admin, joined, started and advanced to its last
\* period; the admin has left
engineState(setup) ==
  published(
    advancedTo(
      handleStartGame(
        joined(handleCreateGame(setMarketName(constructed), setup.options).st, setup.names),
        NoChoice, Epoch).st,
      setup.options.num_periods))

EngineInit ==
  \E setup \in EngineSetups :
    /\ game = engineState(setup).game
    /\ marketName = engineState(setup).marketName
    /\ lastRegistrySnapshot = engineState(setup).lastRegistrySnapshot
    /\ kickedPlayers = engineState(setup).kickedPlayers
    /\ kickedPlayersDirty = engineState(setup).kickedPlayersDirty
    /\ lastClearedPeriod = engineState(setup).lastClearedPeriod
    /\ storage = engineState(setup).storage
    /\ alarm = engineState(setup).alarm
    /\ registry = engineState(setup).registry
    /\ conns = engineState(setup).conns
    /\ pending = << >>
    /\ now = Epoch
    /\ client = clientInitial
    /\ closing = {}
    /\ reconnectDelay = 0

\* Offers for single generators: below every cost, equal to another
\* generator's offer, and above the scarcity price of 25
EngineCommands ==
  { [type |-> "submitOffers", payload |-> Some([offers |-> Some(o)])]
    : o \in { (1 :> Num(0)), (1 :> Num(30)), (2 :> Num(20)), (4 :> Num(20)) } }

\* Every outcome of shuffle and jitter
AllClearingChoices(g) ==
  { [order |-> o, load |-> l] : o \in computeMeritOrder(g.gens),
                                 l \in jitteredLoads(g, g.period) }

\* The auto-advance deadline of the running game passes and the alarm fires
EngineAlarm(choice, delivered) ==
  /\ game.state = "running"
  /\ IsSome(alarm)
  /\ choice \in AllClearingChoices(game)
  /\ Commit(alarmHandler(Max(now, Val(alarm)), choice, delivered))
  /\ now' = Max(now, Val(alarm))

EngineNext ==
  \/ \E c \in Sockets(conns), msg \in EngineCommands, d \in Fates :
       WsMessage(c, msg, NoChoice, d)
  \/ \E d \in Fates : \E choice \in AllClearingChoices(game) : EngineAlarm(choice, d)
  \/ \E i \in 1..MaxPending : Resume(i)

EngineSpec == EngineInit /\ [][EngineNext]_vars

(***************************************************************************)
(* Properties of a cleared period.  The last cleared period is the record  *)
(* p with p.gens[k] = [offer, mw], p.load, p.marginal_cost and the         *)
(* settlement rows p.players; capacity, cost and owner of generator k are  *)
(* those of game.gens[k].                                                  *)
(***************************************************************************)
TotalCapacity == SeqSum([k \in 1..Len(game.gens) |-> game.gens[k].capacity])
TotalDispatch(p) == SeqSum([k \in 1..Len(p.gens) |-> p.gens[k].mw])
Shortage(p) == p.load > TotalCapacity
\* The deadline fired in this behaviour: the last cleared period was cleared
\* with the offers of game.gens
ClearedHere == IsSome(lastClearedPeriod) /\ now > Epoch + MaxElapsed

Conserved(p) ==
  /\ DOMAIN p.gens = 1..Len(game.gens)
  /\ \A k \in DOMAIN p.gens : p.gens[k].mw >= 0 /\ p.gens[k].mw <= game.gens[k].capacity
  /\ TotalDispatch(p) <= p.load
  /\ TotalCapacity >= p.load => TotalDispatch(p) = p.load
  /\ TotalCapacity < p.load => TotalDispatch(p) = TotalCapacity

\* C16: in every cleared period every generator's dispatch is between 0 and
\* its capacity, the dispatched megawatts sum to at most the demand, and to
\* exactly the demand when the total capacity suffices (to the total capacity
\* otherwise), whichever way the shuffle ordered equal offers.
C16_DispatchConservation == IsSome(lastClearedPeriod) => Conserved(Val(lastClearedPeriod))

\* A period cleared with a tie broken against the order of the ids: of two
\* generators with equal offers the later one runs below capacity and the
\* earlier one is idle
C16_Witness ==
  /\ ClearedHere
  /\ \E j, k \in 1..Len(game.gens) :
       /\ j < k
       /\ game.gens[j].offer = game.gens[k].offer
       /\ Val(lastClearedPeriod).gens[j].mw = 0
       /\ Val(lastClearedPeriod).gens[k].mw > 0
       /\ Val(lastClearedPeriod).gens[k].mw < game.gens[k].capacity

\* The offer of the last generator with positive dispatch in a merit order
\* of the offers of p
IsLastDispatchedOffer(p, price) ==
  \E o \in computeMeritOrder(p.gens) : \E i \in 1..Len(o) :
    /\ p.gens[o[i]].mw > 0
    /\ \A j \in (i + 1)..Len(o) : p.gens[o[j]].mw = 0
    /\ p.gens[o[i]].offer = price

Overridden(p) == Val(game.options).scarcity_price > 0 /\ Shortage(p)

Priced(p) ==
  /\ ~Overridden(p) => IsLastDispatchedOffer(p, p.marginal_cost)
  /\ Shortage(p) => \A k \in DOMAIN p.gens : p.gens[k].mw = game.gens[k].capacity
  /\ (Shortage(p) /\ ~Overridden(p)) =>
        /\ \E k \in DOMAIN p.gens : p.gens[k].offer = p.marginal_cost
        /\ \A k \in DOMAIN p.gens : p.gens[k].offer <= p.marginal_cost
  /\ Overridden(p) => p.marginal_cost = Val(game.options).scarcity_price

\* The price clearPeriod sets for the dispatch in merit order o at demand l
priceOf(o, l) == clearingPrice(game, l, dispatchGenerators(game.gens, o, l))

\* In a running game the price of the current period is the same for every
\* outcome of the shuffle
PriceIgnoresTies ==
  (game.state = "running" /\ game.period >= 1) =>
    \A l \in jitteredLoads(game, game.period) :
      \A o1, o2 \in computeMeritOrder(game.gens) : priceOf(o1, l) = priceOf(o2, l)

OwnedSum(n, keep, vals) ==
  SeqSum([ k \in 1..Len(game.gens) |->
             IF game.gens[k].owner = n /\ keep[k] THEN vals[k] ELSE 0 ])

\* What generator k is paid in period p
paid(p, k) ==
  IF Val(game.options).payment_method = "pay_as_offered" THEN p.gens[k].offer * p.gens[k].mw
  ELSE p.marginal_cost * p.gens[k].mw

AboveThePriceIdle(p) ==
  LET within == [k \in 1..Len(game.gens) |-> p.gens[k].offer <= p.marginal_cost]
      rev == [k \in 1..Len(game.gens) |-> paid(p, k)]
      cost == [k \in 1..Len(game.gens) |-> game.gens[k].cost * p.gens[k].mw]
  IN /\ \A k \in DOMAIN p.gens : p.gens[k].offer > p.marginal_cost => p.gens[k].mw = 0
     /\ \A n \in DOMAIN p.players :
          /\ p.players[n].revenue = Some(OwnedSum(n, within, rev))
          /\ p.players[n].costs = Some(OwnedSum(n, within, cost))
          /\ p.players[n].profit = Some(OwnedSum(n, within, rev) - OwnedSum(n, within, cost))

\* C18: in every cleared period a generator whose offer is strictly above
\* the clearing price is not dispatched and adds nothing to its owner's
\* revenue, cost or profit.
C18_AboveThePriceIdle ==
  IsSome(lastClearedPeriod) => AboveThePriceIdle(Val(lastClearedPeriod))

\* The same where no scarcity price overrides the price
AboveThePriceIdleUnlessOverridden ==
  (IsSome(lastClearedPeriod) /\ ~Overridden(Val(lastClearedPeriod)))
    => AboveThePriceIdle(Val(lastClearedPeriod))

\* The settlement rows of p are the sums over each owner's generators
Settled(p) ==
  LET all == [k \in 1..Len(game.gens) |-> TRUE]
      offCost == [k \in 1..Len(game.gens) |-> p.gens[k].offer # game.gens[k].cost]
      rev == [k \in 1..Len(game.gens) |-> paid(p, k)]
      cost == [k \in 1..Len(game.gens) |-> game.gens[k].cost * p.gens[k].mw]
      profit == [k \in 1..Len(game.gens) |-> rev[k] - cost[k]]
  IN \A n \in DOMAIN p.players :
       /\ p.players[n].revenue = Some(OwnedSum(n, all, rev))
       /\ p.players[n].costs = Some(OwnedSum(n, all, cost))
       /\ p.players[n].profit = Some(Val(p.players[n].revenue) - Val(p.players[n].costs))
       /\ p.players[n].money = Some(GetPlayer(game.players, n).money)
       \* pay-as-offered: the generators offered at cost add nothing
       /\ Val(game.options).payment_method = "pay_as_offered"
            => p.players[n].profit = Some(OwnedSum(n, offCost, profit))

\* The clearing of a period adds each owner's profit to the balance
BalanceGrowsByProfit ==
  lastClearedPeriod' # lastClearedPeriod =>
    /\ IsSome(lastClearedPeriod')
    /\ DOMAIN Val(lastClearedPeriod').players = PlayerNames(game.players)
    /\ \A n \in PlayerNames(game.players) :
         GetPlayer(game'.players, n).money
           = GetPlayer(game.players, n).money + Val(Val(lastClearedPeriod').players[n].profit)

\* C19: an owner's recorded revenue is the sum over their generators of the
\* dispatched MW times the clearing price (uniform) or times the generator's
\* own offer (pay-as-offered), the cost is the sum of true cost times MW, the
\* profit is revenue minus cost, and the balance grows by exactly the profit;
\* under pay-as-offered a generator offered at its true cost adds no profit,
\* whatever the demand and the scarcity price.
C19_Settlement ==
  /\ [](ClearedHere => Settled(Val(lastClearedPeriod)))
  /\ [][BalanceGrowsByProfit]_vars

\* Pay-as-offered, cleared in a shortage with a scarcity price: a generator
\* offered at cost runs, and the owner's loss is that of the generator offered
\* below cost
C19_Witness ==
  /\ ClearedHere
  /\ Val(game.options).payment_method = "pay_as_offered"
  /\ Overridden(Val(lastClearedPeriod))
  /\ \E k \in 1..Len(game.gens) :
       game.gens[k].offer = game.gens[k].cost /\ Val(lastClearedPeriod).gens[k].mw > 0
  /\ \E n \in DOMAIN Val(lastClearedPeriod).players :
       Val(Val(lastClearedPeriod).players[n].profit) < 0

\* The scenario: one owner with the five generators of costs 20, 30, 40, 50,
\* 65 and capacities 50, 20, 10, 10, 10, each offered at its cost, cleared
\* at the demand 80
Scenario(p) ==
  /\ p.load = 80
  /\ [k \in 1..Len(game.gens) |-> game.gens[k].cost] = <<20, 30, 40, 50, 65>>
  /\ [k \in 1..Len(game.gens) |-> game.gens[k].capacity] = <<50, 20, 10, 10, 10>>
  /\ [k \in 1..Len(p.gens) |-> p.gens[k].offer] = <<20, 30, 40, 50, 65>>

\* What the scenario pays: 40 for each of the 80 units under uniform
\* settlement, and each generator's own offer (20 for the first) under
\* pay-as-offered
ScenarioPaid(p) ==
  \A n \in DOMAIN p.players :
    p.players[n].revenue =
      Some(IF Val(game.options).payment_method = "pay_as_offered"
           THEN 20 * p.gens[1].mw + 30 * p.gens[2].mw + 40 * p.gens[3].mw
                + 50 * p.gens[4].mw + 65 * p.gens[5].mw
           ELSE 40 * TotalDispatch(p))

\* C20: in the scenario the first three generators are dispatched fully and
\* the fourth partially, the marginal price is 40, uniform settlement pays 40
\* for every dispatched unit and pay-as-offered pays the first generator 20
\* per unit.
C20_ScenarioFourthPartial ==
  (IsSome(lastClearedPeriod) /\ Scenario(Val(lastClearedPeriod))) =>
    /\ Val(lastClearedPeriod).gens[1].mw = 50
    /\ Val(lastClearedPeriod).gens[2].mw = 20
    /\ Val(lastClearedPeriod).gens[3].mw = 10
    /\ Val(lastClearedPeriod).gens[4].mw > 0 /\ Val(lastClearedPeriod).gens[4].mw < 10
    /\ Val(lastClearedPeriod).marginal_cost = 40
    /\ ScenarioPaid(Val(lastClearedPeriod))

\* C20 (amended): in the scenario the first three generators are dispatched
\* fully and the fourth and fifth not at all, the marginal price is 40,
\* uniform settlement pays 40 for every dispatched unit and pay-as-offered
\* pays the first generator 20 per unit.
C20_ScenarioThreeFull ==
  (IsSome(lastClearedPeriod) /\ Scenario(Val(lastClearedPeriod))) =>
    /\ [k \in 1..5 |-> Val(lastClearedPeriod).gens[k].mw] = <<50, 20, 10, 0, 0>>
    /\ Val(lastClearedPeriod).marginal_cost = 40
    /\ ScenarioPaid(Val(lastClearedPeriod))

\* The scenario cleared by the deadline under pay-as-offered: the owner is
\* paid 20 * 50 + 30 * 20 + 40 * 10
C20_Witness ==
  /\ ClearedHere
  /\ Scenario(Val(lastClearedPeriod))
  /\ Val(game.options).payment_method = "pay_as_offered"
  /\ Val(lastClearedPeriod).players["amy"].revenue = Some(2000)

\* The scenario cleared under uniform settlement: the owner is paid 40 * 80
ScenarioUniform ==
  /\ ClearedHere
  /\ Scenario(Val(lastClearedPeriod))
  /\ Val(game.options).payment_method = "last_accepted_offer"
  /\ Val(lastClearedPeriod).players["amy"].revenue = Some(3200)

(***************************************************************************)
(* Handlers that overlap.  RaceSpec lets two handlers wait on the          *)
(* directory at once, for a few requests and commands: an admin who        *)
(* creates a game, kicks amy and destroys the market, and two students who *)
(* join.                                                                   *)
(***************************************************************************)
\* The handlers that may be suspended at once in RaceSpec
MaxRacing == 2

RaceRequests ==
  { Request("admin", "unknown", Some(GoodKey), None),
    Request("participant", "amy", None, Some(GoodToken("amy", "u1"))),
    Request("participant", "bob", None, Some(GoodToken("bob", "u1"))) }

RaceCommands ==
  { [type |-> "createGame", payload |-> Some(GameA)],
    [type |-> "kickPlayer", payload |-> Some([playerId |-> "amy"])] }

RaceUpgrade(req, delivered) ==
  /\ InWindow
  /\ UpgradeEnabled(req)
  /\ CommitWithin(handleWebSocketUpgrade(req, delivered), MaxRacing)
  /\ now' = now

RaceMessage(c, msg, delivered) ==
  /\ InWindow
  /\ c \in Sockets(conns)
  /\ CommitWithin(webSocketMessage(c, msg, NoChoice, delivered), MaxRacing)
  /\ now' = now

RaceDestroy(delivered) ==
  /\ InWindow
  /\ CommitWithin(restDestroy(Some(GoodKey), delivered), MaxRacing)
  /\ now' = now

RaceResume(i) ==
  /\ i \in 1..Len(pending)
  /\ CommitWithin(resume(i), MaxRacing)
  /\ now' = now

RaceNext ==
  \/ \E req \in RaceRequests, d \in Fates : RaceUpgrade(req, d)
  \/ \E c \in Sockets(conns), msg \in RaceCommands, d \in Fates : RaceMessage(c, msg, d)
  \/ \E d \in Fates : RaceDestroy(d)
  \/ Evict
  \/ \E i \in 1..MaxRacing : RaceResume(i)

RaceSpec == Init /\ [][RaceNext]_vars

(***************************************************************************)
(* Offers.  OfferSpec starts from running games with an offer ceiling of   *)
(* 200 (the default), 50 or 25, lets the participants submit negative,     *)
(* huge, ordinary, non-finite and non-numeric values for generators of     *)
(* their own and of others.                                                *)
(***************************************************************************)
Infinity == [kind |-> "inf", v |-> 0]
NotNumber == [kind |-> "string", v |-> 0]
OfferInputs == { Num(0 - 5), Num(30), Num(99999), NaN, Infinity, NotNumber }
OfferCeilings == { 25, 50 }

OfferSetups ==
  { [ names |-> <<"amy">>,
      options |-> [ gen_preset |-> "simple", num_periods |-> 2 ] ] }
  \cup
  { [ names |-> <<"amy", "bob">>,
      options |-> [ gen_preset |-> "simple", max_participants |-> 2, num_periods |-> 2,
                    max_offer_price |-> c ] ]
    : c \in OfferCeilings }

OfferInit ==
  \E setup \in OfferSetups :
    /\ game = engineState(setup).game
    /\ marketName = engineState(setup).marketName
    /\ lastRegistrySnapshot = engineState(setup).lastRegistrySnapshot
    /\ kickedPlayers = engineState(setup).kickedPlayers
    /\ kickedPlayersDirty = engineState(setup).kickedPlayersDirty
    /\ lastClearedPeriod = engineState(setup).lastClearedPeriod
    /\ storage = engineState(setup).storage
    /\ alarm = engineState(setup).alarm
    /\ registry = engineState(setup).registry
    /\ conns = engineState(setup).conns
    /\ pending = << >>
    /\ now = Epoch
    /\ client = clientInitial
    /\ closing = {}
    /\ reconnectDelay = 0

OfferMsg(offers) == [type |-> "submitOffers", payload |-> Some([offers |-> Some(offers)])]

\* Offers for generator 1 (amy's), for generators 4 and 5 (bob's, if bob
\* plays), and for generators 2 and 3 at once
OfferCommands ==
  { OfferMsg(k :> v) : k \in {1, 4, 5}, v \in OfferInputs }
  \cup { OfferMsg((2 :> Num(0 - 5)) @@ (3 :> Num(99999))) }

OfferNext ==
  \E c \in Sockets(conns), msg \in OfferCommands, d \in Fates : WsMessage(c, msg, NoChoice, d)

OfferSpec == OfferInit /\ [][OfferNext]_vars

\* The ceiling of the offers of game g
offerCeiling(g) == IF IsSome(g.options) THEN Val(g.options).max_offer_price ELSE DEFAULT_MAX_OFFER

\* What the offer prev becomes when the value v is submitted for it
ClampedOffer(g, v, prev) ==
  IF v.kind = "num"
  THEN (IF v.v < 0 THEN 0 ELSE IF v.v > offerCeiling(g) THEN offerCeiling(g) ELSE v.v)
  ELSE prev

\* Every generator named in the offers and owned by the sender c gets the
\* clamped value, or keeps its offer when the value is no finite number
OffersClamped(c, offers, o) ==
  \A k \in DOMAIN offers \cap (1..Len(game.gens)) :
    game.gens[k].owner = c.name
      => o.st.game.gens[k].offer = ClampedOffer(game, offers[k], game.gens[k].offer)

SubmitsClamp ==
  \A c \in Sockets(conns), msg \in OfferCommands, d \in Fates :
    (c.role = "participant" /\ game.state = "running")
      => LET o == webSocketMessage(c, msg, NoChoice, d)
         IN /\ Within(o) /\ o.info.changed
            /\ OffersClamped(c, Val(Val(msg.payload).offers), o)

\* C21: in a running game every value v a participant submits for a
\* generator they own makes the generator's offer min(max(v, 0), ceiling)
\* when v is a finite number and leaves it as it was when v is NaN, infinite
\* or not a number; against a ceiling of 200 the values -5, NaN and 99999
\* give 0, the previous offer and 200.  Every offer that changes in a step
\* changes to the clamped value of a submitted value.
C21_OfferClamp ==
  /\ []SubmitsClamp
  /\ [][ \A k \in 1..Len(game.gens) :
           game'.gens[k].offer # game.gens[k].offer
             => /\ game'.gens[k].offer \in 0..offerCeiling(game)
                /\ \E v \in OfferInputs :
                     /\ v.kind = "num"
                     /\ game'.gens[k].offer = ClampedOffer(game, v, game.gens[k].offer) ]_vars

\* Against the ceiling 200 amy has submitted -5 for generator 2 and 99999 for
\* generators 1 and 3: their offers are 200, 0 and 200, and a NaN for
\* generator 1 leaves its 200
C21_Witness ==
  /\ game.state = "running" /\ offerCeiling(game) = 200
  /\ game.gens[1].offer = 200 /\ game.gens[2].offer = 0 /\ game.gens[3].offer = 200
  /\ LET c == Tag("participant", "amy")
     IN /\ c \in Sockets(conns)
        /\ webSocketMessage(c, OfferMsg(1 :> NaN), NoChoice, TRUE).st.game.gens[1].offer = 200
        /\ webSocketMessage(c, OfferMsg(1 :> Num(0 - 5)), NoChoice, TRUE).st.game.gens[1].offer = 0
(***************************************************************************)
(* The lobby.  LobbySpec has an admin who creates a game for two, raises   *)
(* the cap to three and lowers it again, and kicks amy, while amy and bob  *)
(* join and leave and the actor is evicted and restored.                   *)
(***************************************************************************)
LobbyCommands ==
  { [type |-> "createGame", payload |-> Some(GameA)],
    [type |-> "updateOptions", payload |-> Some([max_participants |-> 3])],
    [type |-> "updateOptions", payload |-> Some([max_participants |-> 1])],
    [type |-> "kickPlayer", payload |-> Some([playerId |-> "amy"])] }

LobbyNext ==
  \/ \E req \in RaceRequests, d \in Fates : Upgrade(req, d)
  \/ \E c \in Sockets(conns), msg \in LobbyCommands, d \in Fates : WsMessage(c, msg, NoChoice, d)
  \/ \E c \in Sockets(conns) : WsClose(c)
  \/ \E i \in 1..MaxPending : Resume(i)
  \/ Evict

LobbySpec == Init /\ [][LobbyNext]_vars

\* The configured participant cap of a game that has options
Cap == Val(game.options).max_participants

\* C22: in every reachable state that is forming or full, the state is full
\* exactly when the player count is at least the configured participant cap
\* (after every join, kick, change of the cap, and restore from storage); the
\* player count is the size of the player map.
C22_FullIffAtCap ==
  game.state \in {"forming", "full"}
    => /\ IsSome(game.options)
       /\ game.nplayers = Len(game.players)
       /\ (game.state = "full") <=> (game.nplayers >= Cap)

\* Two players under a cap raised to three: the game that was full at two is
\* forming again, as stored, and lowering the cap makes it full
C22_Witness ==
  /\ game.state = "forming" /\ game.nplayers = 2 /\ Cap = 3
  /\ storage.game = Some(meta(game))
  /\ Tag("admin", "unknown") \in Sockets(conns)
  /\ webSocketMessage(Tag("admin", "unknown"),
                      [type |-> "updateOptions", payload |-> Some([max_participants |-> 1])],
                      NoChoice, TRUE).st.game.state = "full"
(***************************************************************************)
(* A started game                                                          *)
(***************************************************************************)
Started(g) == g.state \in {"running", "completed"}

\* What is fixed when a game starts: the id, owner, capacity and true cost
\* of every generator
FixedGens(g) ==
  [ k \in 1..Len(g.gens) |->
      [ id |-> g.gens[k].id, owner |-> g.gens[k].owner,
        capacity |-> g.gens[k].capacity, cost |-> g.gens[k].cost ] ]

\* g and h have the same options, the same players and the same generators
SameSetup(g, h) ==
  /\ h.options = g.options
  /\ PlayerNames(h.players) = PlayerNames(g.players)
  /\ FixedGens(h) = FixedGens(g)

\* The result o of a handler in a started game leaves the setup, or the game
\* was reset, created again or destroyed
KeepsSetup(o) ==
  (Started(game) /\ Within(o)) =>
    SameSetup(game, o.st.game) \/ o.st.game.state \in {"uninitialized", "forming"}

\* Every command of every connection, with a changed cap and with offers of
\* every kind among them, keeps the setup of a started game
CommandsKeepSetup ==
  \A c \in Sockets(conns), msg \in Commands \cup LobbyCommands \cup OfferCommands, d \in Fates :
    \A choice \in ChoicesFor(c, msg) : KeepsSetup(webSocketMessage(c, msg, choice, d))

\* An options update in a started game is rejected
UpdateRejectedOnceStarted ==
  \A c \in Sockets(conns), msg \in Commands \cup LobbyCommands, d \in Fates :
    (Started(game) /\ msg.type = "updateOptions")
      => LET o == webSocketMessage(c, msg, NoChoice, d)
         IN Within(o) /\ ~o.info.changed /\ o.st.game = game

\* C23: from the moment a game is started until it is reset, created again
\* or destroyed, no command and no firing of the timer changes the options,
\* the set of players, or the id, owner, capacity or true cost of a
\* generator; an options update is rejected in running and in completed.
C23_SetupFixedOnceStarted ==
  /\ [](CommandsKeepSetup /\ UpdateRejectedOnceStarted)
  /\ [][ (Started(game) /\ Started(game')) => SameSetup(game, game') ]_vars

\* A completed game whose balances have moved: the generators are those
\* distributed at the start, and raising the cap is rejected
C23_Witness ==
  /\ game.state = "completed"
  /\ \E i \in 1..Len(game.players) : game.players[i].money # 0
  /\ FixedGens(game) = FixedGens(distributeGenerators(game))
  /\ Tag("admin", "unknown") \in Sockets(conns)
  /\ ~webSocketMessage(Tag("admin", "unknown"),
                       [type |-> "updateOptions", payload |-> Some([max_participants |-> 3])],
                       NoChoice, TRUE).info.changed
(***************************************************************************)
(* The client.  ClientSpec has one client whose user signs in to a market, *)
(* switches markets and logs out, whose transports open, fail and are      *)
(* closed by the server with every code, and whose timers fire.  The       *)
(* market econ102 cannot be reached: no transport to it opens.  A          *)
(* transport that cannot open reports its close and a reconnect timer      *)
(* fires (fairness).  ReplicaSpec has a connected client that receives     *)
(* every full and incremental push of a game of two periods.               *)
(***************************************************************************)
actorVars == << game, marketName, lastRegistrySnapshot, kickedPlayers, kickedPlayersDirty,
                lastClearedPeriod, storage, alarm, registry, conns, pending, now, closing >>

Session(market, role) == [market |-> market, role |-> role, name |-> "amy"]
Sessions ==
  { Session("econ101", "participant"), Session("econ101", "admin"),
    Session("econ102", "participant") }
Reachable == {"econ101"}

\* The codes a transport reports when it closes: abnormal closure and the
\* terminal codes
CloseCodes == {1006} \cup DOMAIN TERMINAL_CLOSE_MESSAGES

\* The pushes of a game: state, the cleared periods it carries, the rest
\* of the record (rev), and connectedClients, which only an admin is sent
PeriodRecords(n) == { [number |-> n, rev |-> r] : r \in {1, 2} }
PushedPeriods(initial) ==
  {<< >>} \cup { <<p>> : p \in PeriodRecords(1) \cup PeriodRecords(2) }
  \cup (IF initial THEN { <<p, q>> : p \in PeriodRecords(1), q \in PeriodRecords(2) } ELSE {})

GameStatePush(state, initial, periods, rev, role) ==
  [ type |-> "gameState",
    payload |-> [ state |-> state, initial |-> initial, periods |-> periods, rev |-> rev,
                  cc |-> IF role = "admin" THEN Some({"amy"}) ELSE None ] ]

AllPushes(role) ==
  UNION { { GameStatePush(s, i, ps, r, role) : ps \in PushedPeriods(i) }
          : s \in {"forming", "running", "completed"}, i \in BOOLEAN, r \in {1, 2} }

FewPushes(role) ==
  { GameStatePush("running", TRUE, <<[number |-> 1, rev |-> 1]>>, 1, role),
    GameStatePush("running", FALSE, <<[number |-> 2, rev |-> 1]>>, 2, role) }

Pong == [type |-> "pong"]
ConnectedClientsMessage == [type |-> "connectedClients", payload |-> {"amy", "bob"}]
ErrorMessage == [type |-> "error", payload |-> "Action not allowed in current state."]

\* The role of the session the transport was opened for
clientRole == IF IsSome(client.reconnectParams) THEN Val(client.reconnectParams).role ELSE ""

\* A step of the client whose reconnect timer, if armed by it, is not timed
ClientStep(cl) ==
  /\ Len(cl.old) <= MaxOld
  /\ client' = cl
  /\ UNCHANGED << actorVars, reconnectDelay >>

UserConnect(s) == ClientStep(connect(client, s))

SoftDisconnect == ClientStep(softDisconnect(client))

Disconnect(clearStoredSession) == ClientStep(disconnect(client, clearStoredSession))

TransportOpens ==
  /\ client.ws = "connecting"
  /\ Val(client.reconnectParams).market \in Reachable
  /\ ClientStep(onopen(client))

TransportErrors ==
  /\ client.ws \in {"connecting", "open"}
  /\ ClientStep(onerror(client))

TransportCloses(code) ==
  /\ client.ws \in {"connecting", "open"}
  /\ ClientStep(onclose(client, code))

\* The transport to a market that cannot be reached reports its close
ConnectFails ==
  /\ client.ws = "connecting"
  /\ Val(client.reconnectParams).market \notin Reachable
  /\ ClientStep(onclose(client, 1006))

\* An earlier transport reports its close: its handler, if it is still
\* attached, runs
OldTransportCloses(code) ==
  /\ client.old # << >>
  /\ LET rest == [client EXCEPT !.old = Tail(@)]
     IN ClientStep(IF Head(client.old)
                   THEN [onclose(rest, code) EXCEPT !.ws = client.ws, !.oldHandlerRan = TRUE]
                   ELSE rest)

TransportMessage(msg) ==
  /\ client.ws = "open"
  /\ (msg.type = "gameState" /\ ~msg.payload.initial) => client.synced
  /\ ClientStep(onmessage(client, msg))

ReconnectFires ==
  /\ client.reconnectTimer
  /\ ClientStep(reconnectFired(client))

PingFires ==
  /\ client.pingInterval
  /\ ClientStep(pingTick(client))

PongTimeoutFires ==
  /\ client.pongTimeout
  /\ ClientStep(pongTimedOut(client))

ClientNext ==
  \/ \E s \in Sessions : UserConnect(s)
  \/ SoftDisconnect
  \/ \E b \in BOOLEAN : Disconnect(b)
  \/ TransportOpens
  \/ TransportErrors
  \/ \E code \in CloseCodes : TransportCloses(code)
  \/ \E code \in CloseCodes : OldTransportCloses(code)
  \/ TransportMessage(Pong)
  \/ TransportMessage(ConnectedClientsMessage)
  \/ TransportMessage(ErrorMessage)
  \/ \E msg \in FewPushes(clientRole) : TransportMessage(msg)
  \/ ReconnectFires
  \/ PingFires
  \/ PongTimeoutFires

ClientSpec ==
  Init /\ [][ClientNext]_vars /\ WF_client(ConnectFails) /\ WF_client(ReconnectFires)

ReplicaNext ==
  \/ \E s \in Sessions : UserConnect(s)
  \/ SoftDisconnect
  \/ TransportOpens
  \/ TransportCloses(1006)
  \/ OldTransportCloses(1006)
  \/ ReconnectFires
  \/ \E msg \in AllPushes(clientRole) : TransportMessage(msg)

ReplicaSpec == Init /\ [][ReplicaNext]_vars
(***************************************************************************)
(* The replica                                                             *)
(***************************************************************************)
Numbers(periods) == { periods[i].number : i \in 1..Len(periods) }

\* The payload itself, without its flag
PayloadItself(payload) ==
  [state |-> payload.state, periods |-> payload.periods, rev |-> payload.rev, cc |-> payload.cc]

\* merged is previous upserted with pushed: sorted by number, one record for
\* each number of either, the pushed record where there is one and the
\* previous record elsewhere
IsUpsert(merged, previous, pushed) ==
  /\ \A i, j \in 1..Len(merged) : i < j => merged[i].number < merged[j].number
  /\ Numbers(merged) = Numbers(previous) \cup Numbers(pushed)
  /\ \A i \in 1..Len(merged) :
       IF merged[i].number \in Numbers(pushed)
       THEN \E j \in 1..Len(pushed) : pushed[j] = merged[i]
       ELSE \E j \in 1..Len(previous) : previous[j] = merged[i]

Replaces(payload) == payload.initial \/ payload.state \notin {"running", "completed"}

MergedAsPushed(payload, replica) ==
  IF Replaces(payload) THEN replica = PayloadItself(payload)
  ELSE /\ [replica EXCEPT !.periods = << >>] = [PayloadItself(payload) EXCEPT !.periods = << >>]
       /\ IsUpsert(replica.periods, client.replica.periods, payload.periods)
       /\ Numbers(client.replica.periods) \subseteq Numbers(replica.periods)

\* C24: on each game-state push the replica becomes the payload itself if
\* the push is flagged as a full snapshot or its lifecycle state is neither
\* running nor completed; otherwise it becomes the payload with its periods
\* replaced by the previous replica's periods upserted with the pushed ones,
\* keyed by number (the pushed record wins) and sorted by number, so that an
\* incremental push never drops a known period.
C24_ReplicaMerge ==
  \A msg \in AllPushes(clientRole) :
    (client.ws = "open" /\ (msg.payload.initial \/ client.synced))
      => MergedAsPushed(msg.payload, onmessage(client, msg).replica)

\* The replica of a running game knows period 1 and has merged period 2 in:
\* an incremental push of another record for period 1 replaces that record
\* and keeps period 2
C24_Witness ==
  /\ client.ws = "open" /\ client.synced
  /\ client.replica.state = "running"
  /\ client.replica.periods = <<[number |-> 1, rev |-> 1], [number |-> 2, rev |-> 2]>>
  /\ onmessage(client, GameStatePush("running", FALSE, <<[number |-> 1, rev |-> 2]>>, 2,
                                     clientRole)).replica.periods
       = <<[number |-> 1, rev |-> 2], [number |-> 2, rev |-> 2]>>

(***************************************************************************)
(* The client's connection                                                 *)
(***************************************************************************)
\* The client has no session to reconnect to, no timer, and no transport
\* that is connecting or open
AtRest(cl) ==
  /\ ~IsSome(cl.reconnectParams)
  /\ ~cl.reconnectTimer /\ ~cl.pingInterval /\ ~cl.pongTimeout
  /\ cl.ws \in {"none", "closed"}
  /\ ~cl.connected /\ ~cl.reconnecting

\* After the close with a terminal code the client is at rest, its stored
\* session is cleared and the message of the code is shown
TerminalCloseStops ==
  \A code \in {WS_CLOSE_REPLACED, WS_CLOSE_KICKED, WS_CLOSE_RESET, WS_CLOSE_DELETED} :
    client.ws \in {"connecting", "open"}
      => LET cl == onclose(client, code)
         IN /\ AtRest(cl)
            /\ ~IsSome(cl.session)
            /\ cl.connectionError = TERMINAL_CLOSE_MESSAGES[code]
            /\ cl.connectionError # NoError

\* C25: when the transport closes with one of the terminal codes 4000, 4001,
\* 4002 or 4003 the client schedules no reconnect, clears its reconnect
\* parameters and its stored session and shows the fixed message of the
\* code; a client without reconnect parameters stays at rest, and no
\* connection attempt happens until an explicit connect.
C25_TerminalClose ==
  /\ [](TerminalCloseStops /\ (~IsSome(client.reconnectParams) => AtRest(client)))
  /\ [][ (~IsSome(client.reconnectParams) /\ client'.ws = "connecting")
           => \E s \in Sessions : client' = connect(client, s) ]_vars

\* The server has closed the open transport with the code 4001: the client
\* shows the message of the ban and is at rest, its session cleared
C25_Witness ==
  /\ client.connectionError = TERMINAL_CLOSE_MESSAGES[WS_CLOSE_KICKED]
  /\ client.ws = "closed" /\ client.sessionEstablishedOnce
  /\ AtRest(client) /\ ~IsSome(client.session)

\* No connection has reached open since the page was loaded or the market
\* was last switched, and the transport of a session is connecting
NeverOpened ==
  /\ client.ws = "connecting" /\ IsSome(client.reconnectParams)
  /\ ~client.hasConnectedOnce /\ ~client.sessionEstablishedOnce

\* The client has stopped retrying: it is at rest, its session is cleared
\* and the session-expired message is shown
GaveUp(cl) ==
  AtRest(cl) /\ ~IsSome(cl.session) /\ cl.connectionError = SESSION_EXPIRED

\* C26: if no connection of the session has ever reached open, then after
\* three consecutive failed connection attempts the client stops retrying,
\* schedules no further attempt, clears the session and shows the
\* session-expired message.
C26_ThreeFailures ==
  (NeverOpened /\ client.failures = 2) => GaveUp(onclose(client, 1006))

\* A failed attempt before any connection has reached open stops the client
\* if three attempts of the session have failed before it, and schedules
\* another attempt otherwise, keeping the session
FailureStopsOrRetries ==
  NeverOpened =>
    LET cl == onclose(client, 1006)
    IN IF client.failures >= 3 THEN GaveUp(cl)
       ELSE /\ cl.reconnectTimer /\ cl.reconnectParams = client.reconnectParams
            /\ cl.session = client.session /\ cl.reconnecting

\* C26 as the client does it: if no connection has reached open since the
\* page was loaded or the market was last switched, the client gives up at
\* the fourth consecutive failed attempt (the first connect and three
\* retries): it then schedules no further attempt, clears the session and
\* shows the session-expired message; each of the first three failures
\* schedules another attempt.
C26_FourFailures ==
  /\ FailureStopsOrRetries
  /\ (GaveUp(client) /\ client.ws = "closed") => client.failures >= 4

\* The first connect and three retries have failed and the client has
\* given up
C26_Witness ==
  /\ GaveUp(client) /\ client.ws = "closed"
  /\ client.failures = 4 /\ client.reconnectAttempt = 3

\* Every call the user can make
UserCalls(cl) ==
  { connect(cl, s) : s \in Sessions } \cup { softDisconnect(cl) }
  \cup { disconnect(cl, b) : b \in BOOLEAN }

\* The handlers of every earlier transport are detached
Detached(cl) == \A i \in 1..Len(cl.old) : ~cl.old[i]

\* A market switch leaves the client at rest, with nothing of the
\* connections before it kept: no attempt counted, no connection remembered,
\* no handler attached, an empty replica
SwitchClears ==
  LET cl == softDisconnect(client)
  IN /\ AtRest(cl) /\ cl.ws = "none" /\ Detached(cl)
     /\ cl.reconnectAttempt = 0 /\ ~cl.hasConnectedOnce /\ ~cl.sessionEstablishedOnce
     /\ cl.connectionError = NoError /\ cl.replica = DEFAULT_GAME_STATE

\* The session of a market that cannot be reached, no connection being
\* remembered
Unreachable == Session("econ102", "participant")
RetryingUnreachable ==
  /\ client.reconnectParams = Some(Unreachable)
  /\ ~client.hasConnectedOnce /\ ~client.sessionEstablishedOnce

\* C27: after a market switch (softDisconnect), whatever happened before it,
\* no reconnect timer, heartbeat timer or handler of the old transport
\* fires: the client is at rest, and at rest only a call of the user or the
\* report of a detached transport is a step; a connect that follows to a
\* market that never reaches open ends, and it ends by the session-expired
\* message unless the user or a terminal close ends it.
C27_SwitchStops ==
  /\ [](SwitchClears /\ Detached(client) /\ ~client.oldHandlerRan)
  /\ [][ AtRest(client)
           => \/ client' \in UserCalls(client)
              \/ client' = [client EXCEPT !.old = Tail(@)] ]_vars
  /\ [][ (RetryingUnreachable /\ client'.reconnectParams # Some(Unreachable))
           => \/ client' \in UserCalls(client)
              \/ GaveUp(client')
              \/ \E code \in DOMAIN TERMINAL_CLOSE_MESSAGES : client' = onclose(client, code) ]_vars
  /\ RetryingUnreachable ~> (client.reconnectParams # Some(Unreachable))

\* A connection had reached open, the user has switched markets, and the
\* client has given up at the fourth failure of the connect that followed
C27_Witness ==
  /\ client.everOpened /\ ~client.sessionEstablishedOnce /\ ~client.hasConnectedOnce
  /\ GaveUp(client) /\ client.ws = "closed" /\ client.failures = 4
  /\ client.old = << >>

(***************************************************************************)
(* Force-destroy.  DestroySpec follows the close events of the sockets the *)
(* actor closes: an admin and amy connect, the admin creates, starts and   *)
(* advances a game, POST /destroy arrives in every state, and the close    *)
(* event of each socket that was closed reaches webSocketClose afterwards. *)
(***************************************************************************)
DestroyCommands ==
  { [type |-> "createGame", payload |-> Some(GameA)],
    [type |-> "startGame", payload |-> None],
    [type |-> "advancePeriod", payload |-> None] }

DestroyUpgrade(req, delivered) ==
  /\ InWindow
  /\ UpgradeEnabled(req)
  /\ CommitClosing(handleWebSocketUpgrade(req, delivered), MaxPending)
  /\ now' = now

DestroyMessage(c, msg, choice, delivered) ==
  /\ InWindow
  /\ c \in Sockets(conns)
  /\ choice \in ChoicesFor(c, msg)
  /\ CommitClosing(webSocketMessage(c, msg, choice, delivered), MaxPending)
  /\ now' = now

DestroyRequest(key, delivered) ==
  /\ InWindow
  /\ CommitClosing(restDestroy(key, delivered), MaxPending)
  /\ now' = now

DestroyResume(i) ==
  /\ i \in 1..Len(pending)
  /\ CommitClosing(resume(i), MaxPending)
  /\ now' = now

\* webSocketClose for a socket the actor has closed: the socket has left
\* getWebSockets() already and the reciprocal close does nothing
webSocketCloseAnswered(c) ==
  LET st1 == broadcastConnectedClientsToAdmins(St)
      st2 == IF st1.conns = EmptyBag /\ st1.game.state # "running"
                /\ st1.game.state # "completed"
             THEN scheduleCleanupAlarm(st1, now) ELSE st1
  IN Out(st2, pending, [NoInfo EXCEPT !.op = "close", !.conn = Some(c)])

CloseAnswered(p) ==
  /\ InWindow
  /\ p \in closing
  /\ CommitState(webSocketCloseAnswered(p[1]), MaxPending)
  /\ closing' = closing \ {p}
  /\ now' = now

DestroyNext ==
  \/ \E req \in TimerRequests, d \in Fates : DestroyUpgrade(req, d)
  \/ \E c \in Sockets(conns), msg \in DestroyCommands, d \in Fates :
       \E choice \in ChoicesFor(c, msg) : DestroyMessage(c, msg, choice, d)
  \/ \E c \in Sockets(conns) : WsClose(c)
  \/ \E key \in AdminKeys, d \in Fates : DestroyRequest(key, d)
  \/ \E p \in closing : CloseAnswered(p)
  \/ \E i \in 1..MaxPending : DestroyResume(i)
  \/ TimerFires
  \/ Evict

DestroySpec == Init /\ [][DestroyNext]_vars

\* What a force-destroy does before it awaits the directory: it answers 200,
\* closes every connection with the code 4003, resets the record in memory
\* and disarms the timer
DestroyAccepted ==
  \A d \in Fates :
    LET o == restDestroy(Some(GoodKey), d)
    IN /\ o.info.status = 200
       /\ o.st.closed = { <<c, WS_CLOSE_DELETED>> : c \in Sockets(conns) }
       /\ o.st.conns = EmptyBag
       /\ o.st.game = defaultGameState
       /\ o.st.alarm = None

\* A force-destroy is suspended at the directory, or the close event of a
\* socket it closed is still to come
DestroyUnderWay ==
  \/ \E i \in 1..Len(pending) :
       pending[i].kind = "deleteAll" /\ pending[i].info.type = "destroy"
  \/ \E p \in closing : p[2] = WS_CLOSE_DELETED

\* Nothing is left of the market
NothingLeft ==
  /\ conns = EmptyBag
  /\ game = defaultGameState
  /\ storage = emptyStorage
  /\ alarm = None
  /\ registry = None

\* C28: force-destroy with valid admin proof is accepted in every lifecycle
\* state, including running; once it has completed and the closes it caused
\* have been processed, every connection has been closed with the code
\* 4003, the record in memory is the default uninitialized record, the
\* market's storage holds no key, no timer is armed, and the market has been
\* removed from the directory.
C28_DestroyLeavesNothing ==
  /\ []DestroyAccepted
  /\ [][ (DestroyUnderWay /\ ~DestroyUnderWay') => NothingLeft' ]_vars

(***************************************************************************)
(* Deferred cleanup                                                        *)
(***************************************************************************)
\* The stored cleanup instant is reached at t, within the tolerance
CleanupDue(t) ==
  IsSome(storage.cleanupAt) /\ t >= Val(storage.cleanupAt) - CLEANUP_JITTER_MS

\* The firing o deletes the market's storage
Deletes(o) == o.info.type = "cleanup"

\* The firing o at t reschedules the cleanup and deletes nothing
Reschedules(o, t) ==
  /\ o.st.storage = [storage EXCEPT !.cleanupAt = Some(t + CLEANUP_DELAY_MS)]
  /\ o.st.alarm = Some(t + CLEANUP_DELAY_MS)
  /\ o.pend = pending

\* The firings of the alarm that is armed
Firings(P(_, _)) ==
  IsSome(alarm) =>
    LET t == Max(now, Val(alarm))
    IN CleanupDue(t) =>
         \A d \in Fates, choice \in ClearingChoices(game) :
           P(alarmHandler(t, choice, d), t)

DeletesOnlyUnattended(o, t) ==
  Deletes(o) <=> (conns = EmptyBag /\ game.state # "running")

ReschedulesAttended(o, t) ==
  (conns # EmptyBag \/ game.state = "running") => Reschedules(o, t)

\* No cleanup instant is stored for a running game: a close schedules none
\* while the game is running, and every connection admitted to a game that
\* is not completed cancels the one stored
RunningHasNoCleanup == game.state = "running" => ~IsSome(storage.cleanupAt)

\* A completed game without connections does not stay: its storage is
\* deleted, or someone connects
CompletedIsDeleted ==
  (game.state = "completed" /\ conns = EmptyBag)
    ~> (storage = emptyStorage \/ conns # EmptyBag \/ game.state # "completed")

LiveRecordWithoutPeriods ==
  IsSome(storage.game) => "periods" \notin DOMAIN Val(storage.game)

\* A step keeps every stored period record as it is, or deletes them all
KeptOrAllDeleted ==
  \/ storage'.periods = << >>
  \/ \A n \in DOMAIN storage.periods :
       n \in DOMAIN storage'.periods /\ storage'.periods[n] = storage.periods[n]

\* The key of period N is written by the advance of a running game from N
\* to N + 1, with the record of N, and that advance writes no other key
WrittenAtItsAdvance ==
  \A n \in DOMAIN storage'.periods \ DOMAIN storage.periods :
    /\ game.state = "running" /\ game.period = n /\ game'.period = n + 1
    /\ storage'.periods[n].number = n
    /\ lastClearedPeriod' = Some(storage'.periods[n])
    /\ DOMAIN storage'.periods = DOMAIN storage.periods \cup {n}

\* The advance from N finds no record under the key of N
AdvanceFindsNoRecord ==
  (game.state = "running" /\ game.period >= 1 /\ game'.period = game.period + 1)
    => game.period \notin DOMAIN storage.periods

\* The handler's step removes a stored period record
DropsRecords(o) ==
  \E n \in DOMAIN storage.periods : n \notin DOMAIN o.st.storage.periods

\* Only createGame, the reset, and the deleteAll of /destroy and of the
\* cleanup alarm remove a stored period record
BulkDeletionsOnly ==
  /\ \A c \in Sockets(conns), msg \in Commands, d \in Fates :
       \A choice \in ChoicesFor(c, msg) :
         DropsRecords(webSocketMessage(c, msg, choice, d))
           => (c.role = "admin" /\ msg.type \in {"createGame", "resetGame"})
  /\ \A req \in UpgradeRequests, d \in Fates :
       ~DropsRecords(handleWebSocketUpgrade(req, d))
  /\ \A c \in Sockets(conns) :
       ~DropsRecords(webSocketClose(c)) /\ ~DropsRecords(webSocketError(c))
  /\ \A key \in AdminKeys, v \in Visibilities, d \in Fates :
       ~DropsRecords(restSettings(key, v, d))
  /\ \A key \in AdminKeys, d \in Fates :
       /\ DropsRecords(restReset(key, d)) => key = Some(GoodKey)
       /\ DropsRecords(restDestroy(key, d)) => key = Some(GoodKey)
  /\ IsSome(alarm) =>
       \A d \in Fates, choice \in ClearingChoices(game) :
         LET o == alarmHandler(Max(now, Val(alarm)), choice, d)
         IN DropsRecords(o) => o.info.type = "cleanup"
  /\ \A i \in 1..Len(pending) :
       DropsRecords(resume(i))
         => (pending[i].kind = "deleteAll" /\ pending[i].info.type \in {"destroy", "cleanup"})
  /\ ~DropsRecords(Out(restore(St), pending, NoInfo))

\* C30: the stored live record never contains cleared periods, and within
\* one game each cleared period N is written to its own key exactly once, at
\* the advance that clears it, and is never rewritten or deleted until the
\* bulk deletion done by reset, game creation, destroy or deferred cleanup.
C30_PersistenceSplit ==
  /\ [](LiveRecordWithoutPeriods /\ BulkDeletionsOnly)
  /\ [][KeptOrAllDeleted /\ WrittenAtItsAdvance /\ AdvanceFindsNoRecord]_vars

\* Both periods of a completed game are stored under their keys, beside the
\* live record of the game
C30_Witness ==
  /\ game.state = "completed" /\ game.period = 3
  /\ DOMAIN storage.periods = {1, 2}
  /\ storage.periods[1].number = 1 /\ storage.periods[2].number = 2
  /\ lastClearedPeriod = Some(storage.periods[2])
  /\ storage.game = Some(meta(game))
  /\ "periods" \in DOMAIN game /\ "periods" \notin DOMAIN Val(storage.game)
(***************************************************************************)
(* The external directory.  DirectorySpec has an admin and a student who   *)
(* connect and leave, games that are created, made unlisted, reset and     *)
(* destroyed, a directory whose fetch succeeds or fails, and the cleanup   *)
(* alarm, after which requests go on.                                      *)
(***************************************************************************)
\* pushToRegistry returns true or false
DirectoryFates == BOOLEAN

DirectoryCommands ==
  { [type |-> "createGame", payload |-> Some(GameA)],
    [type |-> "resetGame", payload |-> None],
    [type |-> "setVisibility", payload |-> Some([visibility |-> "unlisted"])] }

DirectoryUpgrade(req, delivered) ==
  /\ UpgradeEnabled(req)
  /\ Commit(handleWebSocketUpgrade(req, delivered))
  /\ now' = now

DirectoryMessage(c, msg, delivered) ==
  /\ c \in Sockets(conns)
  /\ Commit(webSocketMessage(c, msg, NoChoice, delivered))
  /\ now' = now

DirectoryClose(c) ==
  /\ c \in Sockets(conns)
  /\ Commit(webSocketClose(c))
  /\ now' = now

DirectoryDestroy(delivered) ==
  /\ Commit(restDestroy(Some(GoodKey), delivered))
  /\ now' = now

DirectoryAlarm(delivered) ==
  /\ IsSome(alarm)
  /\ Val(alarm) <= Epoch + TimerHorizon * CLEANUP_DELAY_MS
  /\ FetchesReturned(Val(alarm))
  /\ Commit(alarmHandler(Max(now, Val(alarm)), NoChoice, delivered))
  /\ now' = Max(now, Val(alarm))

DirectoryNext ==
  \/ \E req \in TimerRequests, d \in DirectoryFates : DirectoryUpgrade(req, d)
  \/ \E c \in Sockets(conns), msg \in DirectoryCommands, d \in DirectoryFates :
       DirectoryMessage(c, msg, d)
  \/ \E c \in Sockets(conns) : DirectoryClose(c)
  \/ \E d \in DirectoryFates : DirectoryDestroy(d)
  \/ \E d \in DirectoryFates : DirectoryAlarm(d)
  \/ Evict
  \/ Resumes

DirectorySpec == Init /\ [][DirectoryNext]_vars

\* The handler's step ended at the await of pushToRegistry
DirectoryCalled(o) ==
  /\ o.info.phase = "suspended"
  /\ o.pend # << >> /\ o.pend[Len(o.pend)].kind = "persistAndBroadcast"

\* The summary of the handler's game differs from the remembered one, and
\* the market's name is known
SummaryDiffers(o) ==
  Some(buildSnapshot(o.st.game)) # o.st.lastRegistrySnapshot /\ o.st.marketName # ""

\* A command or request that changed the game calls the directory exactly
\* if the summary differs
CalledIffChanged ==
  /\ \A c \in Sockets(conns), msg \in DirectoryCommands \cup Commands, d \in DirectoryFates :
       LET o == webSocketMessage(c, msg, NoChoice, d)
       IN (msg.type # "advancePeriod" /\ o.info.changed /\ ~o.info.threw)
            => (DirectoryCalled(o) <=> SummaryDiffers(o))
  /\ \A key \in AdminKeys, d \in DirectoryFates :
       LET o == restReset(key, d)
       IN o.info.changed => (DirectoryCalled(o) <=> SummaryDiffers(o))

\* A step that calls the directory from persistAndBroadcast has written the
\* record of the game, calls with the summary of that record, which differs
\* from the remembered one, and changes the directory only if the call is
\* delivered
CallStep ==
  (Len(pending') = Len(pending) + 1 /\ pending'[Len(pending')].kind = "persistAndBroadcast")
    => LET k == pending'[Len(pending')]
       IN /\ Some(buildSnapshot(game')) # lastRegistrySnapshot' /\ marketName' # ""
          /\ k.snapshot = buildSnapshot(game')
          /\ storage'.game = Some(meta(game'))
          /\ registry' = IF k.updated THEN pushToRegistry(game') ELSE registry
          /\ lastRegistrySnapshot' \in {lastRegistrySnapshot, None}

\* The directory's entry changes only with a call
DirectoryChangesByCall ==
  registry' # registry =>
    /\ Len(pending') = Len(pending) + 1
    /\ pending'[Len(pending')].updated

\* The handler whose call failed goes on as the one whose call succeeded,
\* except that the summary is not remembered: the stored record stays, the
\* directory is not called again, and the same pushes are sent
FailedCallGoesOn ==
  \A i \in 1..Len(pending) :
    LET k == pending[i]
        o == resume(i)
        succeeded == resumed([k EXCEPT !.updated = TRUE], RemoveAt(pending, i))
    IN (k.kind = "persistAndBroadcast" /\ ~k.updated) =>
         /\ o.st.lastRegistrySnapshot = lastRegistrySnapshot
         /\ o.st.storage.registrySnapshot = storage.registrySnapshot
         /\ o.st.storage.game = storage.game
         /\ o.st.storage = [succeeded.st.storage EXCEPT
                              !.registrySnapshot = storage.registrySnapshot]
         /\ o.st.registry = registry
         /\ o.pend = RemoveAt(pending, i)
         /\ o.ok = succeeded.ok /\ o.info = succeeded.info
         /\ o.st.sent = succeeded.st.sent /\ o.st.conns = succeeded.st.conns
         /\ o.st.game = succeeded.st.game
         /\ o.ok => \A c \in pushTargets(St, k.submitter) :
                      \E m \in o.st.sent : m.to = c /\ m.type = "gameState"

Randoms == {0, 250, 500, 501, 999}

\* The transport reports its close; onclose arms the reconnect timer with
\* the delay of the attempts counted so far
BackoffCloses(code, random) ==
  /\ client.ws \in {"connecting", "open"}
  /\ LET cl == onclose(client, code)
     IN /\ Len(cl.old) <= MaxOld
        /\ client' = cl
        /\ reconnectDelay' = IF cl.reconnectTimer
                             THEN scheduledDelay(client, random, reconnectDelay)
                             ELSE reconnectDelay
  /\ UNCHANGED actorVars

BackoffNext ==
  \/ \E s \in Sessions : UserConnect(s)
  \/ SoftDisconnect
  \/ TransportOpens
  \/ \E random \in Randoms : BackoffCloses(1006, random)
  \/ ReconnectFires

BackoffSpec == Init /\ [][BackoffNext]_vars

\* The attempts the armed timer can have been armed for: the counter is one
\* past the attempt, and stays where the model keeps it
ArmedAttempts ==
  {client.reconnectAttempt - 1}
  \cup (IF client.reconnectAttempt = MaxAttempt THEN {MaxAttempt} ELSE {})

\* The delay is the base of attempt n scaled by a factor from 0.8 to 1.2
WithinJitter(delay, n) ==
  /\ 8 * Min(1000 * Pow2(n), 30000) <= 10 * delay
  /\ 10 * delay <= 12 * Min(1000 * Pow2(n), 30000)

DelayWithinJitter ==
  client.reconnectTimer => \E n \in ArmedAttempts : WithinJitter(reconnectDelay, n)

\* A transport that reaches open returns the attempt counter to 0
OpenResetsAttempts ==
  (client'.ws = "open" /\ client.ws # "open") => client'.reconnectAttempt = 0

\* C32: the delay before the n-th consecutive reconnect attempt (n counted
\* from 0) is min(1000 * 2^n, 30000) ms scaled by a jitter factor between
\* 0.8 and 1.2, and the delay never exceeds the 30 second maximum; the
\* attempt counter returns to 0 whenever a connection reaches open.
C32_ReconnectDelay ==
  /\ [](DelayWithinJitter /\ (client.reconnectTimer => reconnectDelay <= RECONNECT_MAX_MS))
  /\ [][OpenResetsAttempts]_vars

\* What holds of the delay: it is within the jitter of its base, and at
\* most 1.2 times the maximum
DelayAsComputed ==
  /\ [](DelayWithinJitter /\ (client.reconnectTimer => 10 * reconnectDelay <= 12 * RECONNECT_MAX_MS))
  /\ [][OpenResetsAttempts]_vars

\* The timer is armed for the sixth attempt in a row with more than the
\* maximum
DelayAboveMaximum ==
  /\ client.reconnectTimer /\ client.reconnectAttempt >= 5
  /\ reconnectDelay > RECONNECT_MAX_MS

(***************************************************************************)
(* One client and the actor together.  SyncSpec joins the client of        *)
(* websocket.ts to the actor's wire: the client connects as the admin or   *)
(* as amy, every message the actor sends to the client's socket reaches    *)
(* onmessage in the order the handler sent it, and a close of the socket   *)
(* reaches onclose.  The other identity connects on a socket of its own,   *)
(* the admin creates, starts, advances, rewards and resets, the actor is   *)
(* evicted between requests, and requests to the directory are delivered   *)
(* or lost, with up to MaxPending handlers suspended at their await.        *)
(***************************************************************************)
SyncCommands ==
  { [type |-> "createGame", payload |-> Some(GameA)],
    [type |-> "startGame", payload |-> None],
    [type |-> "advancePeriod", payload |-> None],
    [type |-> "resetGame", payload |-> None] }
  \cup { [type |-> "rewardPlayer", payload |-> Some([playerId |-> "amy", amount |-> Num(a)])]
         : a \in {5, -5} }

\* The admin rewards amy once and takes the reward back
RewardInTurn(msg) ==
  msg.type = "rewardPlayer" =>
    /\ HasPlayer(game.players, "amy")
    /\ (msg.payload[1].amount.v > 0) = (GetPlayer(game.players, "amy").money % 10 = 0)

SyncSession(req) == [market |-> MarketParam, role |-> req.role, name |-> req.name]

\* The client has a transport that is open or being opened
clientLive == client.ws \in {"connecting", "open"}

\* The tags of the socket the actor holds for the client's session
clientTag(cl) == Tag(Val(cl.reconnectParams).role, Val(cl.reconnectParams).name)

\* JSON.parse of a pushed gameState as the client reads it: the state, the
\* periods, the flag _initial, connectedClients when present, and the rest
wireGameState(p) ==
  [ type |-> "gameState",
    payload |->
      [ state |-> p.state, periods |-> p.periods, initial |-> p.initial,
        rev |-> [ f \in DOMAIN p \ {"periods", "connectedClients", "initial"} |-> p[f] ],
        cc |-> IF "connectedClients" \in DOMAIN p THEN Some(p.connectedClients) ELSE None ] ]

wireOther(m) == [type |-> m.type, payload |-> m.payload]

\* onmessage for each message of the set S, which holds at most one
RECURSIVE receiveAll(_, _)
receiveAll(cl, S) ==
  IF S = {} THEN cl
  ELSE LET m == CHOOSE x \in S : TRUE
       IN receiveAll(onmessage(cl, m), S \ {m})

\* What the handler's output does to the client cl: the close of its socket,
\* else the pushes to its socket in the order the handlers send them (the
\* incremental push, the snapshot of an accepted upgrade, whose arrival
\* follows onopen, the list of connected clients, an error)
deliver(cl, o) ==
  IF ~IsSome(cl.reconnectParams) \/ cl.ws \notin {"connecting", "open"} THEN cl
  ELSE LET tag == clientTag(cl)
           mine == { m \in o.st.sent : m.to = tag }
           pushes(initial) ==
             { wireGameState(m.payload)
               : m \in { x \in mine : x.type = "gameState" /\ x.payload.initial = initial } }
           others(type) == { wireOther(m) : m \in { x \in mine : x.type = type } }
           closes == { p \in o.st.closed : p[1] = tag /\ p[2] # WS_CLOSE_REPLACED }
           c1 == IF cl.ws = "open" THEN receiveAll(cl, pushes(FALSE)) ELSE cl
           c2 == IF cl.ws = "connecting" /\ pushes(TRUE) # {}
                 THEN receiveAll(onopen(c1), pushes(TRUE)) ELSE c1
           c3 == IF c2.ws = "open"
                 THEN receiveAll(receiveAll(c2, others("connectedClients")), others("error"))
                 ELSE c2
       IN IF closes # {} /\ cl.ws = "open"
          THEN onclose(cl, (CHOOSE p \in closes : TRUE)[2])
          ELSE c3

\* A refused upgrade fails the transport, and the user leaves the market
refused(cl, o) ==
  IF o.info.op = "upgrade" /\ o.info.phase = "done" /\ o.info.status # 101
  THEN softDisconnect(onclose(cl, 1006))
  ELSE cl

SyncCommit(cl, o) ==
  /\ CommitActor(o, MaxPending)
  /\ client' = cl
  /\ Len(cl.old) <= MaxOld
  /\ UNCHANGED << closing, reconnectDelay, now >>

\* connect() of the client and the upgrade request it sends
SyncConnect(req, delivered) ==
  /\ ~clientLive
  /\ UpgradeEnabled(req)
  /\ LET o == handleWebSocketUpgrade(req, delivered)
     IN SyncCommit(refused(deliver(connect(client, SyncSession(req)), o), o), o)

\* An upgrade request of the identity that is not the client's
SyncUpgrade(req, delivered) ==
  /\ clientLive => Tag(req.role, req.name) # clientTag(client)
  /\ UpgradeEnabled(req)
  /\ LET o == handleWebSocketUpgrade(req, delivered)
     IN SyncCommit(deliver(client, o), o)

SyncMessage(c, msg, choice, delivered) ==
  /\ c \in Sockets(conns)
  /\ choice \in ChoicesFor(c, msg)
  /\ RewardInTurn(msg)
  /\ LET o == webSocketMessage(c, msg, choice, delivered)
     IN SyncCommit(deliver(client, o), o)

\* The close of a socket that is not the client's
SyncClose(c) ==
  /\ c \in Sockets(conns)
  /\ clientLive => c # clientTag(client)
  /\ LET o == webSocketClose(c)
     IN SyncCommit(deliver(client, o), o)

SyncResume(i) ==
  /\ i \in 1..Len(pending)
  /\ LET o == resume(i)
     IN SyncCommit(deliver(client, o), o)

SyncNext ==
  \/ \E req \in TimerRequests, d \in DirectoryFates : SyncConnect(req, d)
  \/ \E req \in TimerRequests, d \in DirectoryFates : SyncUpgrade(req, d)
  \/ \E c \in Sockets(conns), msg \in SyncCommands, d \in DirectoryFates :
       \E choice \in ChoicesFor(c, msg) : SyncMessage(c, msg, choice, d)
  \/ \E c \in Sockets(conns) : SyncClose(c)
  \/ \E i \in 1..MaxPending : SyncResume(i)
  \/ Evict

SyncSpec == Init /\ [][SyncNext]_vars

\* The actor's projection for the client now, as the client would read it
projectionNow ==
  wireGameState(getVisibleState(game, clientTag(client).role, clientTag(client).name, None,
                                lastClearedPeriod, getConnectedClients(St),
                                getCurrentLoad(game), getNextLoad(game))).payload

\* The client holds the snapshot of its connection and every later push, and
\* no handler has still to push
UpToDate ==
  /\ client.ws = "open" /\ client.synced
  /\ clientTag(client) \in Sockets(conns)
  /\ pending = << >>

Converged ==
  UpToDate =>
    /\ Numbers(client.replica.periods) = DOMAIN storage.periods
    /\ client.replica.state = projectionNow.state
    /\ client.replica.rev = projectionNow.rev
    /\ client.replica.cc = projectionNow.cc

\* C33: replica convergence.  Whenever the client holds its connect snapshot
\* and every later push and no handler has still to push, the period numbers
\* of the client's replica are those of the cleared-period records in
\* storage, and every other field of the replica is the actor's projection
\* for the client: across start, advance, completion, reward, re-creation,
\* reset and an eviction between pushes.
C33_ReplicaConverges == Converged

\* The replica lacks a period that storage holds
ReplicaLacksPeriod ==
  /\ UpToDate
  /\ \E n \in DOMAIN storage.periods : n \notin Numbers(client.replica.periods)

(***************************************************************************)
(* Offers and the replicas of the others.  SubmitSpec starts from the      *)
(* running game of amy and bob in its last period.  The client is bob's:   *)
(* it connects and receives what the actor sends to bob's socket.  amy and *)
(* bob submit offers, amy leaves and returns, an admin connects, rewards   *)
(* bob, takes the reward back and advances the game, the actor is evicted  *)
(* between requests, and requests to the directory are delivered or lost.  *)
(***************************************************************************)
SubmitSetup ==
  [ names |-> <<"amy", "bob">>,
    options |-> [ gen_preset |-> "simple", max_participants |-> 2, num_periods |-> 2 ] ]

SubmitInit ==
  /\ game = engineState(SubmitSetup).game
  /\ marketName = engineState(SubmitSetup).marketName
  /\ lastRegistrySnapshot = engineState(SubmitSetup).lastRegistrySnapshot
  /\ kickedPlayers = engineState(SubmitSetup).kickedPlayers
  /\ kickedPlayersDirty = engineState(SubmitSetup).kickedPlayersDirty
  /\ lastClearedPeriod = engineState(SubmitSetup).lastClearedPeriod
  /\ storage = engineState(SubmitSetup).storage
  /\ alarm = engineState(SubmitSetup).alarm
  /\ registry = engineState(SubmitSetup).registry
  /\ conns = engineState(SubmitSetup).conns
  /\ pending = << >>
  /\ now = Epoch
  /\ client = clientInitial
  /\ closing = {}
  /\ reconnectDelay = 0

BobRequest == Request("participant", "bob", None, Some(GoodToken("bob", "u1")))
AdminRequest == Request("admin", "unknown", Some(GoodKey), None)
AmyRequest == Request("participant", "amy", None, Some(GoodToken("amy", "u1")))

\* Offers for generators of amy (1, 2) and of bob (4), and for both at once
SubmitOffers ==
  { OfferMsg(1 :> Num(30)), OfferMsg(2 :> Num(0 - 5)), OfferMsg(4 :> Num(30)),
    OfferMsg((1 :> Num(20)) @@ (4 :> Num(99999))) }

SubmitCommands ==
  SubmitOffers
  \cup { [type |-> "advancePeriod", payload |-> None] }
  \cup { [type |-> "rewardPlayer", payload |-> Some([playerId |-> "bob", amount |-> Num(a)])]
         : a \in {5, -5} }

\* The admin rewards bob once and takes the reward back
BobRewardInTurn(msg) ==
  msg.type = "rewardPlayer" =>
    (msg.payload[1].amount.v > 0) = (GetPlayer(game.players, "bob").money % 10 = 0)

SubmitMessage(c, msg, choice, delivered) ==
  /\ BobRewardInTurn(msg)
  /\ SyncMessage(c, msg, choice, delivered)

SubmitNext ==
  \/ \E d \in DirectoryFates : SyncConnect(BobRequest, d)
  \/ \E req \in {AdminRequest, AmyRequest}, d \in DirectoryFates : SyncUpgrade(req, d)
  \/ \E c \in Sockets(conns) : SyncClose(c)
  \/ \E c \in Sockets(conns), msg \in SubmitCommands, d \in DirectoryFates :
       \E choice \in ChoicesFor(c, msg) : SubmitMessage(c, msg, choice, d)
  \/ \E i \in 1..MaxPending : SyncResume(i)
  \/ Evict

SubmitSpec == SubmitInit /\ [][SubmitNext]_vars

\* What the actor would push to the participant `name` from the state st
projectionOf(st, name) ==
  getVisibleState(st.game, "participant", name, None, st.lastClearedPeriod,
                  getConnectedClients(st), getCurrentLoad(st.game), getNextLoad(st.game))

\* A submission the actor accepts leaves the projection of every other
\* participant as it was
SubmitKeepsOthers ==
  \A c \in Sockets(conns), msg \in SubmitOffers, d \in DirectoryFates :
    LET o == webSocketMessage(c, msg, NoChoice, d)
    IN (c.role = "participant" /\ o.ok /\ o.info.changed)
         => \A b \in PlayerNames(game.players) \ {c.name} :
              projectionOf(o.st, b) = projectionOf(St, b)

\* The push of a submission goes to the submitter and to the admins only
PushedToSubmitter ==
  \A c \in Sockets(conns), msg \in SubmitOffers, d \in DirectoryFates :
    LET o == webSocketMessage(c, msg, NoChoice, d)
    IN (c.role = "participant" /\ o.ok /\ o.info.changed)
         => \A m \in o.st.sent : m.type = "gameState" => (m.to = c \/ m.to.role = "admin")

\* C34: a submit-offers that succeeds leaves the projection of every other
\* participant exactly as it was, and its push goes to the submitter and to
\* the admins only; the replica of a connected participant that has
\* received what it was sent is the actor's projection for it.
C34_SubmitKeepsOthers == SubmitKeepsOthers /\ PushedToSubmitter /\ Converged

\* amy, connected, has changed her offers, and bob's client, which was sent
\* nothing for it, holds the actor's projection
C34_Witness ==
  /\ UpToDate /\ clientTag(client).name = "bob"
  /\ Tag("participant", "amy") \in Sockets(conns)
  /\ game.state = "running"
  /\ game.gens[1].offer = 30 /\ game.gens[2].offer = 0
  /\ GetPlayer(game.players, "amy").last_offer_time > 0
  /\ client.replica.rev = wireGameState(projectionOf(St, "bob")).payload.rev

(***************************************************************************)
(* The frame of a submission                                               *)
(***************************************************************************)
\* The record after differs from the record before at most in the offers of
\* the generators owned by name and in the submission timestamp of name
OnlyOwnOffers(before, after, name) ==
  /\ [after EXCEPT !.gens = before.gens, !.players = before.players] = before
  /\ Len(after.gens) = Len(before.gens)
  /\ \A k \in 1..Len(before.gens) :
       /\ [after.gens[k] EXCEPT !.offer = before.gens[k].offer] = before.gens[k]
       /\ before.gens[k].owner # name => after.gens[k] = before.gens[k]
  /\ Len(after.players) = Len(before.players)
  /\ \A i \in 1..Len(before.players) :
       /\ [after.players[i] EXCEPT !.last_offer_time = before.players[i].last_offer_time]
            = before.players[i]
       /\ before.players[i].id # name => after.players[i] = before.players[i]

\* Every submission of every socket, whatever it names
SubmitFrame ==
  \A c \in Sockets(conns), msg \in OfferCommands, d \in Fates :
    LET o == webSocketMessage(c, msg, NoChoice, d)
    IN o.ok => OnlyOwnOffers(game, o.st.game, c.name)

\* C35: a submit-offers command from the participant P changes only the
\* offers of generators owned by P and P's submission timestamp; for every
\* payload, with ids of generators of others and ids of no generator, the
\* offers of the generators P does not own, every balance, the timestamps of
\* the other players, the period counter and the lifecycle state stay.
C35_SubmitFrame ==
  /\ []SubmitFrame
  /\ [][\E name \in PlayerNames(game.players) : OnlyOwnOffers(game, game', name)]_vars

\* amy has submitted, bob has not, bob's generators hold their first offers,
\* and amy's submission for bob's generator 4 is accepted and changes none
C35_Witness ==
  /\ game.state = "running" /\ Len(game.gens) = 6
  /\ GetPlayer(game.players, "amy").last_offer_time = now
  /\ GetPlayer(game.players, "bob").last_offer_time = 0
  /\ game.gens[1].offer # game.gens[1].cost
  /\ \A k \in 4..6 : game.gens[k].owner = "bob" /\ game.gens[k].offer = game.gens[k].cost
  /\ LET o == webSocketMessage(Tag("participant", "amy"), OfferMsg(4 :> Num(30)), NoChoice, TRUE)
     IN o.info.changed /\ o.st.game.gens = game.gens

(***************************************************************************)
(* The offer ceiling                                                       *)
(***************************************************************************)
OffersWithinCeiling ==
  game.state = "running"
    => \A k \in 1..Len(game.gens) : game.gens[k].offer \in 0..offerCeiling(game)

RecordedWithinCeiling ==
  \A n \in DOMAIN storage.periods :
    \A k \in DOMAIN storage.periods[n].gens :
      storage.periods[n].gens[k].offer <= offerCeiling(game)

\* C36: in every running state, for every preset and every admissible
\* ceiling, the offer of each generator lies between 0 and the ceiling, the
\* offers seeded from the costs at the start included, and no cleared period
\* records an offer above the ceiling.
C36_OffersWithinCeiling == OffersWithinCeiling /\ RecordedWithinCeiling

\* A running game whose ceiling is below the cost, and the seeded offer, of
\* one of its generators
SeededAboveCeiling ==
  /\ game.state = "running"
  /\ \E k \in 1..Len(game.gens) :
       game.gens[k].offer = game.gens[k].cost /\ game.gens[k].cost > offerCeiling(game)

\* Every offer that a submission has set lies between 0 and the ceiling
SubmittedWithinCeiling ==
  [][ \A k \in 1..Len(game.gens) :
        game'.gens[k].offer # game.gens[k].offer
          => game'.gens[k].offer \in 0..offerCeiling(game) ]_vars

(***************************************************************************)
(* Balances.  In SyncSpec the admin rewards amy with 5 and takes the 5     *)
(* back in turn, so the rewards applied to amy since the start sum to 0 or *)
(* 5.                                                                      *)
(***************************************************************************)
startingMoney(g) == IF IsSome(g.options) THEN Val(g.options).starting_money ELSE 0


\* The sum of the profits recorded for name in the periods 1..n
RECURSIVE ProfitsUpTo(_, _, _)
ProfitsUpTo(periods, name, n) ==
  IF n = 0 THEN 0
  ELSE Val(periods[n].players[name].profit) + ProfitsUpTo(periods, name, n - 1)

RewardTotals == {0, 5}

\* The balance is the starting balance, plus the recorded profits, plus the
\* rewards applied
BalanceIsSum ==
  (Started(game) /\ DOMAIN storage.periods = 1..(game.period - 1))
    => \A name \in PlayerNames(game.players) :
         GetPlayer(game.players, name).money
           - startingMoney(game) - ProfitsUpTo(storage.periods, name, game.period - 1)
             \in RewardTotals

\* A step changes the balances by the start, by the profits of the period it
\* clears, whose record holds the balances after it, or by one reward
BalanceStep ==
  Started(game') =>
    IF ~Started(game)
    THEN \A i \in 1..Len(game'.players) : game'.players[i].money = startingMoney(game')
    ELSE /\ Len(game'.players) = Len(game.players)
         /\ IF DOMAIN storage'.periods # DOMAIN storage.periods
            THEN \E n \in DOMAIN storage'.periods \ DOMAIN storage.periods :
                   \A i \in 1..Len(game.players) :
                     LET row == storage'.periods[n].players[game.players[i].id]
                     IN /\ game'.players[i].money = game.players[i].money + Val(row.profit)
                        /\ Val(row.money) = game'.players[i].money
            ELSE \/ game'.players = game.players
                 \/ \E i \in 1..Len(game.players), a \in {5, -5} :
                      game'.players = [game.players EXCEPT ![i].money = @ + a]

\* A reward of any amount changes the balance of its player by the amount
\* clamped to the limit, and no other balance
RewardAmounts == { Num(5), Num(0 - 5), Num(2000000), Num(0 - 2000000), NaN }

RewardClamped ==
  \A c \in Sockets(conns), v \in RewardAmounts, d \in DirectoryFates :
    LET msg == [type |-> "rewardPlayer", payload |-> Some([playerId |-> "amy", amount |-> v])]
        o == webSocketMessage(c, msg, NoChoice, d)
        applies == c.role = "admin" /\ Started(game) /\ HasPlayer(game.players, "amy")
                   /\ v.kind = "num"
    IN o.ok =>
         o.st.game.players =
           IF applies
           THEN [ i \in 1..Len(game.players) |->
                    IF game.players[i].id = "amy"
                    THEN [ game.players[i] EXCEPT
                             !.money = @ + Max(0 - REWARD_LIMIT, Min(v.v, REWARD_LIMIT)) ]
                    ELSE game.players[i] ]
           ELSE game.players

\* C37: in every running or completed state the balance of each player is
\* the starting balance plus the profits recorded for the player in the
\* cleared periods plus the clamped rewards and penalties applied to the
\* player, and the balance recorded in a cleared period is the player's
\* balance right after that period was cleared.
C37_BalanceAccounting == [](BalanceIsSum /\ RewardClamped) /\ [][BalanceStep]_vars

\* The game is completed, both periods are recorded with a profit, and amy
\* holds a reward of 5 on top of them
C37_Witness ==
  /\ game.state = "completed" /\ DOMAIN storage.periods = {1, 2}
  /\ Val(storage.periods[1].players["amy"].profit) > 0
  /\ Val(storage.periods[2].players["amy"].money)
       # Val(storage.periods[1].players["amy"].money) + Val(storage.periods[2].players["amy"].profit)
  /\ GetPlayer(game.players, "amy").money
       = startingMoney(game) + ProfitsUpTo(storage.periods, "amy", 2) + 5

(***************************************************************************)
(* The directory's entry and the record                                    *)
(***************************************************************************)
\* The handler whose result is o has completed a persistAndBroadcast with a
\* known market name
PersistCompleted(o) ==
  /\ o.ok /\ Len(o.pend) <= MaxPending
  /\ o.info.phase = "done" /\ o.info.changed
  /\ o.info.type \notin {"destroy", "cleanup"}
  /\ o.st.marketName # ""

\* The directory holds the summary of the record, and no entry for an
\* uninitialized record
DirectoryConsistent(st) == st.registry = pushToRegistry(st.game)

ListedCommands ==
  DestroyCommands \cup { [type |-> "setVisibility", payload |-> Some([visibility |-> "public"])] }

\* P of the result of every command, upgrade and resumed handler, the
\* directory taking every request
OfEveryPersist(P(_)) ==
  /\ \A c \in Sockets(conns), msg \in ListedCommands :
       \A choice \in ChoicesFor(c, msg) : P(webSocketMessage(c, msg, choice, TRUE))
  /\ \A req \in TimerRequests : P(handleWebSocketUpgrade(req, TRUE))
  /\ \A i \in 1..Len(pending) : P(resume(i))

ConsistentWhenCompleted(o) == PersistCompleted(o) => DirectoryConsistent(o.st)

\* C38: whenever a persistAndBroadcast completes while the directory takes
\* every request and the market name is known, the directory's entry is the
\* state, visibility, player count and participant cap of the record, and
\* there is no entry when the record is uninitialized; also for a game
\* created after a force-destroy or a deferred cleanup.
C38_DirectoryConsistent == OfEveryPersist(ConsistentWhenCompleted)

\* A game is forming, its record is stored and has been pushed to the
\* connected admin, nothing is suspended, and the directory has no entry:
\* the actor remembers the summary of the game before the deletion, which
\* storage no longer holds
UnlistedGame ==
  /\ pending = << >> /\ marketName # ""
  /\ game.state = "forming" /\ storage.game = Some(meta(game))
  /\ Tag("admin", "unknown") \in Sockets(conns)
  /\ registry = None
  /\ lastRegistrySnapshot = Some(buildSnapshot(game)) /\ storage.registrySnapshot = None

(***************************************************************************)
(* The record in memory after a deferred cleanup                           *)
(***************************************************************************)
DefaultRecord(g) ==
  g.state = "uninitialized" /\ g.players = << >> /\ g.gens = << >> /\ g.period = 0

\* C39: after a firing of the deferred cleanup has deleted the market's
\* storage, the record in memory is the default one (uninitialized, no
\* players, no generators, period 0), as it would be after an eviction, so
\* that a connection admitted afterwards is sent the same snapshot either
\* way and no later command stores the deleted game again.
C39_CleanupLeavesDefault ==
  (storage = emptyStorage /\ pending = << >>) => DefaultRecord(game)

\* The cleanup has deleted storage and the game it deleted is in memory
DeletedGameInMemory ==
  /\ storage = emptyStorage /\ pending = << >> /\ conns = EmptyBag
  /\ now >= Epoch + CLEANUP_DELAY_MS - CLEANUP_JITTER_MS
  /\ game.state = "completed"

\* The cleanup has deleted the forming game, which is still in memory: amy's
\* join is accepted into it and stores its record again
DeletedGameStoredAgain ==
  /\ storage = emptyStorage /\ pending = << >> /\ conns = EmptyBag
  /\ now >= Epoch + CLEANUP_DELAY_MS - CLEANUP_JITTER_MS
  /\ game.state = "forming" /\ game.players = << >>
  /\ LET o == handleWebSocketUpgrade(
                Request("participant", "amy", None, Some(GoodToken("amy", "u1"))), TRUE)
     IN /\ o.ok /\ IsSome(o.st.storage.game)
        /\ Val(o.st.storage.game).state = "forming"
        /\ Val(o.st.storage.game).options = game.options
        /\ Len(Val(o.st.storage.game).players) = 1

(***************************************************************************)
(* A connect after disconnect()                                            *)
(***************************************************************************)
\* No connection has reached open since the user last called disconnect()
\* or softDisconnect(), or since the page was loaded
NotOpenedSince == ~client.hasConnectedOnce

\* C40: after disconnect() a connect to a market that never reaches open
\* gives up with the session-expired message after the bounded number of
\* failed attempts (the first connect and three retries), also when an
\* earlier connection of the page session had reached open.
C40_GivesUpAfterDisconnect ==
  (NotOpenedSince /\ IsSome(client.reconnectParams) /\ client.ws = "connecting"
     /\ client.failures >= 3)
    => GaveUp(onclose(client, 1006))

\* A connection had reached open and the user called disconnect(); the
\* connect that followed has failed four times and the client retries
RetriesAfterDisconnect ==
  /\ client.everOpened /\ client.sessionEstablishedOnce /\ ~client.hasConnectedOnce
  /\ client.reconnectParams = Some(Unreachable)
  /\ client.failures >= 4 /\ client.reconnectTimer /\ client.reconnecting
  /\ client.connectionError # SESSION_EXPIRED

\* The connect to the market that cannot be reached ends
UnreachableEnds ==
  (client.reconnectParams = Some(Unreachable) /\ NotOpenedSince)
    ~> (client.reconnectParams # Some(Unreachable))
====
